---- MODULE Spec2Model ----
(***************************************************************************)
(* Land Portfolio Analyzer (src/app.py): the derivation pipeline of one    *)
(* uploaded CRM export.  A run loads a table (df), process_data derives    *)
(* the processed table at a processing instant, and the views read it.     *)
(*                                                                         *)
(* Conventions of the model                                                *)
(*  - A cell is a record [k, s, n, d]: k = "null" (NaN / None), k = "str"  *)
(*    (a string, s = its pieces; a raw CSV string is one piece, a string   *)
(*    built by join is the sequence of the joined pieces) or k = "num"     *)
(*    (the number n/d, d > 0, in lowest terms).  Floating point rounding   *)
(*    is not modelled: the arithmetic on finite numbers is exact.          *)
(*  - A row is a function from the table's columns to cells; a table is    *)
(*    [cols, rows] with DOMAIN rows[i] = cols.                             *)
(*  - Time is counted in ticks of 12 hours from 2024-01-01 00:00.          *)
(*  - The status strings of check_missing_information carry an emoji in    *)
(*    the source; the module is ASCII, so "(ok) " and "(x) " stand for it. *)
(***************************************************************************)
EXTENDS Integers, Sequences, FiniteSets, TLC

VARIABLES
    phase,          \* "idle" (no file yet), "uploaded" (df read), "processed"
    df,             \* the raw table read from the uploaded file
    now,            \* datetime.now() of the processing pass, in ticks
    processed_df,   \* the table process_data returned
    hierarchy,      \* what display_hierarchy_breakdown last rendered
    earlier,        \* the previous pass of process_data over the same file
    detail,         \* what display_detailed_tables last rendered
    inventory,      \* the story of the last inventory report
    checklist,      \* the story of the last missing fields checklist
    errors,         \* the st.error messages on the page
    wrap_text,      \* wrap_text_smart on its own: the text it is called with
    wrap_max_length, \* the max_length it is called with
    wrapped,        \* what the call returned
    session_state   \* st.session_state: the owner checkboxes, by owner

\* what the views and exports render
outputs == <<hierarchy, detail, inventory, checklist>>

\* a call of wrap_text_smart on its own
call == <<wrap_text, wrap_max_length, wrapped>>

vars == <<phase, df, now, processed_df, hierarchy, earlier, detail, inventory,
          checklist, errors, wrap_text, wrap_max_length, wrapped, session_state>>

-----------------------------------------------------------------------------
(* Bounds *)

MaxRows == 3        \* rows of a multi-row upload
MaxNow == 4         \* latest processing instant, in ticks

-----------------------------------------------------------------------------
(* Cells and exact arithmetic *)

Null == [k |-> "null", s |-> <<>>, n |-> 0, d |-> 1]
Text(pieces) == [k |-> "str", s |-> pieces, n |-> 0, d |-> 1]
Str(x) == Text(<<x>>)

RECURSIVE GCD(_, _)
GCD(a, b) == IF b = 0 THEN a ELSE GCD(b, a % b)

Abs(a) == IF a < 0 THEN -a ELSE a

\* the number a/b (b # 0) in lowest terms with a positive denominator
Num(a, b) ==
    LET g == GCD(Abs(a), Abs(b))
        sg == IF b < 0 THEN -1 ELSE 1
    IN  [k |-> "num", s |-> <<>>, n |-> sg * (a \div g), d |-> sg * (b \div g)]

Whole(a) == [k |-> "num", s |-> <<>>, n |-> a, d |-> 1]

\* a float that is not finite: Null is NaN, Inf(1) and Inf(-1) the infinities
Inf(sign) == [k |-> "inf", s |-> <<>>, n |-> sign, d |-> 1]

Sign(a) == IF a < 0 THEN -1 ELSE 1

\* x - y, x * y, x / y on floats: NaN propagates, x / 0 is an infinity
\* and 0 / 0 is NaN
RSub(x, y) ==
    IF x.k = "null" \/ y.k = "null" THEN Null
    ELSE IF x.k = "inf" THEN (IF y.k = "inf" /\ y.n = x.n THEN Null ELSE x)
    ELSE IF y.k = "inf" THEN Inf(-y.n)
    ELSE Num(x.n * y.d - y.n * x.d, x.d * y.d)

RMul(x, y) ==
    IF x.k = "null" \/ y.k = "null" THEN Null
    ELSE IF x.k = "inf" \/ y.k = "inf"
         THEN (IF x.n = 0 \/ y.n = 0 THEN Null ELSE Inf(Sign(x.n) * Sign(y.n)))
    ELSE Num(x.n * y.n, x.d * y.d)

RDiv(x, y) ==
    IF x.k = "null" \/ y.k = "null" THEN Null
    ELSE IF x.k = "inf" THEN (IF y.k = "inf" THEN Null ELSE Inf(x.n * Sign(y.n)))
    ELSE IF y.k = "inf" THEN Whole(0)
    ELSE IF y.n = 0 THEN (IF x.n = 0 THEN Null ELSE Inf(Sign(x.n)))
    ELSE Num(x.n * y.d, x.d * y.n)

isna(v) == v.k = "null"
IsZero(v) == v.k = "num" /\ v.n = 0

-----------------------------------------------------------------------------
(* Column names *)

COL_PRICE == "primary_opportunity_value"
COL_STATUS == "primary_opportunity_status_label"
COL_COST == "custom.Asset_Cost_Basis"
COL_ACRES == "custom.All_Asset_Surveyed_Acres"
COL_OLP == "custom.Asset_Original_Listing_Price"
COL_COUNTY == "custom.All_County"
COL_STATE == "custom.All_State"
COL_PURCHASED == "custom.Asset_Date_Purchased"

required_fields == <<
    <<"custom.All_APN", "APN">>,
    <<COL_ACRES, "Surveyed Acres">>,
    <<COL_COUNTY, "County">>,
    <<"custom.All_RemarkableLand_URL", "RemarkableLand URL">>,
    <<COL_STATE, "State">>,
    <<COL_COST, "Cost Basis">>,
    <<COL_PURCHASED, "Date Purchased">>,
    <<COL_OLP, "Original Listing Price">>,
    <<"custom.Asset_Land_ID_Internal_URL", "Land ID Internal URL">>,
    <<"custom.Asset_Land_ID_Share_URL", "Land ID Share URL">>,
    <<"custom.Asset_MLS#", "MLS#">>,
    <<"custom.Asset_MLS_Listing_Date", "MLS Listing Date">>,
    <<"custom.Asset_Street_Address", "Street Address">>,
    <<"custom.Asset_Last_Mapping_Audit", "Last Map Audit">>,
    <<"custom.Asset_Owner", "Owner">>,
    <<"custom.Asset_Listing_Type", "Listing Type">>,
    <<"avg_one_time_active_opportunity_value", "Avg One Time Active Opportunity Value">> >>

numeric_columns == <<COL_PRICE, COL_COST, COL_ACRES, COL_OLP>>

status_order == <<"Purchased", "Listed", "Under Contract", "Off Market">>

DerivedColumns ==
    {"days_held", "price_reductions", "current_margin", "current_margin_pct",
     "price_per_acre", "markup_percentage", "cost_basis_per_acre",
     "percent_of_initial_listing", "missing_information"}

Range(f) == {f[i] : i \in DOMAIN f}

\* row.get(key): the cell, or None when the row has no such column
Get(row, key) == IF key \in DOMAIN row THEN row[key] ELSE Null

\* the row with one more column (or the column overwritten)
Put(row, key, v) == [c \in DOMAIN row \cup {key} |-> IF c = key THEN v ELSE row[c]]

-----------------------------------------------------------------------------
(* calculate_days_held *)

TicksPerDay == 2

\* pd.to_datetime of one cell: [ok |-> FALSE] when it raises, nat for NaT,
\* else the timestamp in ticks.  A number is read as nanoseconds since
\* 1970-01-01, which is tick -39446 for every number below 12 hours of ns.
to_datetime(v) ==
    IF v.k = "num" THEN [ok |-> TRUE, nat |-> FALSE, ts |-> -39446]
    ELSE CASE v.s = <<"2024-01-01">> -> [ok |-> TRUE, nat |-> FALSE, ts |-> 0]
           [] v.s = <<"2024-01-02">> -> [ok |-> TRUE, nat |-> FALSE, ts |-> 2]
           [] v.s = <<"2024-01-03 12:00">> -> [ok |-> TRUE, nat |-> FALSE, ts |-> 5]
           [] v.s = <<"">> -> [ok |-> TRUE, nat |-> TRUE, ts |-> 0]
           [] OTHER -> [ok |-> FALSE, nat |-> FALSE, ts |-> 0]

\* (datetime.now() - purchase_dt).days: timedelta.days is the floor
\* mutant: the day count truncated toward zero instead of floored
DaysBetween_truncated(t, ts) ==
    IF t >= ts THEN (t - ts) \div TicksPerDay ELSE -((ts - t) \div TicksPerDay)

DaysBetween(t, ts) == (t - ts) \div TicksPerDay

calculate_days_held(row, t) ==
    LET purchase_date == Get(row, COL_PURCHASED)
    IN  IF isna(purchase_date) THEN Null
        ELSE LET purchase_dt == to_datetime(purchase_date)
             IN  IF ~purchase_dt.ok THEN Null          \* except: return None
                 ELSE IF purchase_dt.nat THEN Null     \* NaT.days is NaN
                 ELSE Whole(DaysBetween(t, purchase_dt.ts))

-----------------------------------------------------------------------------
(* check_missing_information *)

\* mutant: a structurally absent column skipped instead of reported
IsMissingField_skip_absent(row, field_key) ==
    /\ field_key \in DOMAIN row
    /\ LET value == row[field_key]
       IN  IF field_key = COL_COST
           THEN isna(value) \/ value = Str("") \/ IsZero(value)
           ELSE isna(value) \/ value = Str("") \/ value = Str("Unknown")
                  \/ value = Str("Unknown County")

\* mutant: a zero counts as missing in every field
IsMissingField_zero_everywhere(row, field_key) ==
    IF field_key \in DOMAIN row
    THEN LET value == row[field_key]
         IN  isna(value) \/ value = Str("") \/ IsZero(value) \/ value = Str("Unknown")
               \/ value = Str("Unknown County")
    ELSE TRUE

IsMissingField(row, field_key) ==
    IF field_key \in DOMAIN row
    THEN LET value == row[field_key]
         IN  IF field_key = COL_COST
             THEN isna(value) \/ value = Str("") \/ IsZero(value)
             ELSE isna(value) \/ value = Str("") \/ value = Str("Unknown")
                    \/ value = Str("Unknown County")
    ELSE TRUE

RECURSIVE Join(_, _)
\* sep.join(items), as the sequence of its pieces
Join(items, sep) ==
    IF Len(items) = 0 THEN <<"">>
    ELSE IF Len(items) = 1 THEN <<items[1]>>
    ELSE <<items[1], sep>> \o Join(Tail(items), sep)

COMPLETE == "(ok) Complete"
MISSING_PREFIX == "(x) Missing: "

check_missing_information(row) ==
    LET Missing(p) == IsMissingField(row, p[1])
        sel == SelectSeq(required_fields, Missing)
        missing_fields == [i \in 1..Len(sel) |-> sel[i][2]]
    IN  IF missing_fields = <<>> THEN Str(COMPLETE)
        ELSE Text(<<MISSING_PREFIX>> \o Join(missing_fields, ", "))

-----------------------------------------------------------------------------
(* process_data: cleaning and numeric coercion *)

\* str.title() on the county strings of the model's inputs
Title(x) ==
    CASE x = "bexar" -> "Bexar"
      [] x = "unknown" -> "Unknown"
      [] x = "unknown county" -> "Unknown County"
      [] x = "abc" -> "Abc"
      [] OTHER -> x        \* "", "Bexar", "Travis", "Unknown", "Unknown County"

\* fillna('Unknown County'), then astype(str).str.title()
clean_county(v) ==
    LET filled == IF isna(v) THEN Str("Unknown County") ELSE v
    IN  Str(Title(filled.s[1]))

\* pd.to_numeric(errors='coerce') of one cell: NaN for what does not parse
to_numeric(v) ==
    IF v.k = "num" THEN v
    ELSE IF v.k = "null" THEN Null
    ELSE CASE v.s = <<"150000">> -> Whole(150000)
           [] v.s = <<"12.5">> -> Num(25, 2)
           [] OTHER -> Null

fillna0(v) == IF isna(v) THEN Whole(0) ELSE v

\* mutant: the fillna(0) forgotten
coerce_numeric_nofill(v) == to_numeric(v)

coerce_numeric(v) == fillna0(to_numeric(v))

-----------------------------------------------------------------------------
(* process_data: price reductions *)

DigitChar == <<"0", "1", "2", "3", "4", "5", "6", "7", "8", "9">>

RECURSIVE Digits(_)
Digits(m) ==
    IF m < 10 THEN <<DigitChar[m + 1]>>
    ELSE Digits(m \div 10) \o <<DigitChar[(m % 10) + 1]>>

\* str(i) of an integer, one character per piece
IntToStr(i) == IF i < 0 THEN <<"-">> \o Digits(-i) ELSE Digits(i)

\* int(c) of a digit character
CharToInt(c) == CHOOSE g \in 0..9 : DigitChar[g + 1] = c

\* int(price): truncation toward zero
Trunc(v) == IF v.n >= 0 THEN v.n \div v.d ELSE -((-v.n) \div v.d)

reduction_map == [g \in 0..9 |-> 9 - g]

\* mutant: the zero guard forgotten
calc_price_reductions_unguarded(price) ==
    IF isna(price) THEN 0
    ELSE LET text == IntToStr(Trunc(price))
             trailing_digit == CharToInt(text[Len(text)])
         IN  reduction_map[trailing_digit]

calc_price_reductions(price) ==
    IF isna(price) \/ IsZero(price) THEN 0
    ELSE IF price.k = "inf" THEN 0          \* int(inf) raises; except: return 0
    ELSE LET text == IntToStr(Trunc(price))
             trailing_digit == CharToInt(text[Len(text)])
         IN  reduction_map[trailing_digit]

price_reductions(row) ==
    IF COL_PRICE \in DOMAIN row
    THEN Whole(calc_price_reductions(row[COL_PRICE]))
    ELSE Whole(0)

-----------------------------------------------------------------------------
(* process_data: financial ratios, each on the coerced row *)

Has(row, columns) == columns \subseteq DOMAIN row

current_margin(row) ==
    IF Has(row, {COL_PRICE, COL_COST})
    THEN RSub(row[COL_PRICE], row[COL_COST])
    ELSE Whole(0)

current_margin_pct(row) ==
    IF Has(row, {COL_PRICE, COL_COST}) /\ ~IsZero(row[COL_PRICE])
    THEN RMul(RDiv(current_margin(row), row[COL_PRICE]), Whole(100))
    ELSE Whole(0)

\* mutant: the zero-acre mask forgotten
price_per_acre_unmasked(row) ==
    IF Has(row, {COL_PRICE, COL_ACRES})
    THEN RDiv(row[COL_PRICE], row[COL_ACRES])
    ELSE Whole(0)

price_per_acre(row) ==
    IF Has(row, {COL_PRICE, COL_ACRES}) /\ ~IsZero(row[COL_ACRES])
    THEN RDiv(row[COL_PRICE], row[COL_ACRES])
    ELSE Whole(0)

\* mutant: the markup taken over the asking price instead of the cost basis
markup_percentage_over_price(row) ==
    IF Has(row, {COL_PRICE, COL_COST}) /\ ~IsZero(row[COL_COST])
    THEN RMul(RDiv(RSub(row[COL_PRICE], row[COL_COST]), row[COL_PRICE]), Whole(100))
    ELSE Whole(0)

markup_percentage(row) ==
    IF Has(row, {COL_PRICE, COL_COST}) /\ ~IsZero(row[COL_COST])
    THEN RMul(RDiv(RSub(row[COL_PRICE], row[COL_COST]), row[COL_COST]), Whole(100))
    ELSE Whole(0)

\* mutant: the asking price column required as well
cost_basis_per_acre_needs_price(row) ==
    IF Has(row, {COL_PRICE, COL_COST, COL_ACRES}) /\ ~IsZero(row[COL_ACRES])
    THEN RDiv(row[COL_COST], row[COL_ACRES])
    ELSE Whole(0)

cost_basis_per_acre(row) ==
    IF Has(row, {COL_COST, COL_ACRES}) /\ ~IsZero(row[COL_ACRES])
    THEN RDiv(row[COL_COST], row[COL_ACRES])
    ELSE Whole(0)

percent_of_initial_listing(row) ==
    IF Has(row, {COL_PRICE, COL_OLP}) /\ ~IsZero(row[COL_OLP])
    THEN RMul(RDiv(row[COL_PRICE], row[COL_OLP]), Whole(100))
    ELSE Whole(0)

-----------------------------------------------------------------------------
(* process_data *)

\* the steps of process_data on one row, in the order of the source; every
\* step is row-wise given the table's columns (DOMAIN row)
process_row(row, t) ==
    LET cleaned == [c \in DOMAIN row |->
                      IF c = COL_COUNTY THEN clean_county(row[c]) ELSE row[c]]
        held == Put(cleaned, "days_held", calculate_days_held(cleaned, t))
        coerced == [c \in DOMAIN held |->
                      IF c \in Range(numeric_columns)
                      THEN coerce_numeric(held[c]) ELSE held[c]]
        metrics == [c \in DOMAIN coerced \cup (DerivedColumns \ {"missing_information"}) |->
                      CASE c = "price_reductions" -> price_reductions(coerced)
                        [] c = "current_margin" -> current_margin(coerced)
                        [] c = "current_margin_pct" -> current_margin_pct(coerced)
                        [] c = "price_per_acre" -> price_per_acre(coerced)
                        [] c = "markup_percentage" -> markup_percentage(coerced)
                        [] c = "cost_basis_per_acre" -> cost_basis_per_acre(coerced)
                        [] c = "percent_of_initial_listing" ->
                               percent_of_initial_listing(coerced)
                        [] OTHER -> coerced[c]]
    IN  Put(metrics, "missing_information", check_missing_information(metrics))

\* mutant: a derived count that reads the clock
process_data_stamped(table, t) ==
    [cols |-> table.cols \cup DerivedColumns,
     rows |-> [i \in 1..Len(table.rows) |->
                 Put(process_row(table.rows[i], t), "price_reductions", Whole(t))]]

\* mutant: one record without a usable asking price zeroes the margin of all
process_data_columnwise(table, t) ==
    LET Unpriced(row) == IsZero(coerce_numeric(Get(row, COL_PRICE)))
        spoiled == \E i \in 1..Len(table.rows) : Unpriced(table.rows[i])
    IN  [cols |-> table.cols \cup DerivedColumns,
         rows |-> [i \in 1..Len(table.rows) |->
                     IF spoiled
                     THEN Put(process_row(table.rows[i], t), "current_margin", Whole(0))
                     ELSE process_row(table.rows[i], t)]]

\* mutant: the records come back last first
process_data_reversed(table, t) ==
    [cols |-> table.cols \cup DerivedColumns,
     rows |-> [i \in 1..Len(table.rows) |->
                 process_row(table.rows[Len(table.rows) + 1 - i], t)]]

process_data(table, t) ==
    [cols |-> table.cols \cup DerivedColumns,
     rows |-> [i \in 1..Len(table.rows) |-> process_row(table.rows[i], t)]]

ERROR_PROCESSING == "Error processing"

\* the value the except branch gives a derived column
basic(c) ==
    CASE c = "days_held" -> Null
      [] c = "missing_information" -> Str(ERROR_PROCESSING)
      [] OTHER -> Whole(0)

\* mutant: the except branch runs the completeness check over the raw records
process_data_except_checked(table) ==
    [cols |-> table.cols \cup DerivedColumns,
     rows |-> [i \in 1..Len(table.rows) |->
                 LET defaulted == [c \in table.cols \cup DerivedColumns |->
                                      IF c \in DerivedColumns THEN basic(c)
                                      ELSE table.rows[i][c]]
                 IN  Put(defaulted, "missing_information",
                         check_missing_information(defaulted))]]

\* process_data when its try block raises: basic_df, the raw records with the
\* derived columns at their defaults
process_data_except(table) ==
    [cols |-> table.cols \cup DerivedColumns,
     rows |-> [i \in 1..Len(table.rows) |->
                 [c \in table.cols \cup DerivedColumns |->
                     IF c \in DerivedColumns THEN basic(c) ELSE table.rows[i][c]]]]

-----------------------------------------------------------------------------
(* display_hierarchy_breakdown *)

\* Series.unique(): the distinct cells of a column
Unique(table, col) == {table.rows[i][col] : i \in 1..Len(table.rows)}

CountWhere(table, col, v) ==
    Cardinality({i \in 1..Len(table.rows) : table.rows[i][col] = v})

\* mutant: a status outside status_order gets a group as well
ordered_statuses_any(table) ==
    IF COL_STATUS \in table.cols
    THEN LET Available(status) == Str(status) \in Unique(table, COL_STATUS)
         IN  SelectSeq(status_order \o <<"Zzz-Unknown">>, Available)
    ELSE <<>>

ordered_statuses(table) ==
    IF COL_STATUS \in table.cols
    THEN LET Available(status) == Str(status) \in Unique(table, COL_STATUS)
         IN  SelectSeq(status_order, Available)
    ELSE <<>>

status_summary(table) ==
    LET ordered == ordered_statuses(table)
    IN  [i \in 1..Len(ordered) |->
           [Status |-> ordered[i],
            Properties |-> CountWhere(table, COL_STATUS, Str(ordered[i]))]]

\* df[df[col] == v]: the rows whose cell equals v (NaN equals nothing)
Where(table, col, v) ==
    LET Kept(row) == ~isna(v) /\ row[col] = v
    IN  [cols |-> table.cols, rows |-> SelectSeq(table.rows, Kept)]

\* the strings the state and county columns hold, in code point order
CodePointOrder ==
    <<"", "Abc", "Bexar", "OK", "Parcel 1", "TX", "Travis", "Unknown",
      "Unknown County", "abc", "bexar", "unknown", "unknown county">>

Rank(x) == CHOOSE i \in 1..Len(CodePointOrder) : CodePointOrder[i] = x

\* a < b of two cells that Python can compare; NaN is below and above nothing
Less(a, b) ==
    IF a.k = "str" /\ b.k = "str" THEN Rank(a.s[1]) < Rank(b.s[1])
    ELSE IF a.k = "num" /\ b.k = "num" THEN a.n * b.d < b.n * a.d
    ELSE FALSE

\* str < float raises TypeError
Comparable(cells) ==
    \A a \in cells, b \in cells : (a.k = "str") = (b.k = "str")

\* sorted(values) of cells that are comparable
RECURSIVE sorted(_)
sorted(cells) ==
    IF cells = {} THEN <<>>
    ELSE LET least == CHOOSE x \in cells : \A y \in cells : ~Less(y, x)
         IN  <<least>> \o sorted(cells \ {least})

NotNa(v) == ~isna(v)

complete_count(table) == Len(Where(table, "missing_information", Str(COMPLETE)).rows)

\* Level 3: one line per county of the state, in sorted order
county_summary(state_df) ==
    LET counties == SelectSeq(sorted(Unique(state_df, COL_COUNTY)), NotNa)
    IN  [i \in 1..Len(counties) |->
           LET county_df == Where(state_df, COL_COUNTY, counties[i])
           IN  [County |-> counties[i],
                Properties |-> Len(county_df.rows),
                Complete |-> complete_count(county_df),
                Incomplete |-> Len(county_df.rows) - complete_count(county_df)]]

\* Level 2: one entry per state of the status, in sorted order
state_breakdown(status_df) ==
    LET states == SelectSeq(sorted(Unique(status_df, COL_STATE)), NotNa)
    IN  [i \in 1..Len(states) |->
           LET state_df == Where(status_df, COL_STATE, states[i])
           IN  [State |-> states[i],
                Properties |-> Len(state_df.rows),
                Complete |-> complete_count(state_df),
                Incomplete |-> Len(state_df.rows) - complete_count(state_df),
                counties |-> IF COL_COUNTY \in state_df.cols
                             THEN county_summary(state_df) ELSE <<>>]]

\* the expander of one status
status_breakdown(table, status) ==
    LET status_df == Where(table, COL_STATUS, Str(status))
    IN  [Status |-> status,
         Properties |-> Len(status_df.rows),
         states |-> IF COL_STATE \in status_df.cols
                    THEN state_breakdown(status_df) ELSE <<>>]

\* sorted() raises in the expander of a status whose states (or the counties of
\* one of its states) mix strings with NaN or numbers
SortRaises(table, status) ==
    LET status_df == Where(table, COL_STATUS, Str(status))
    IN  /\ COL_STATE \in table.cols
        /\ \/ ~Comparable(Unique(status_df, COL_STATE))
           \/ /\ COL_COUNTY \in table.cols
              /\ \E state \in Unique(status_df, COL_STATE) :
                    /\ NotNa(state)
                    /\ ~Comparable(Unique(Where(status_df, COL_STATE, state), COL_COUNTY))

\* the expanders rendered before the first one that raises
RECURSIVE breakdown(_, _)
breakdown(table, statuses) ==
    IF statuses = <<>> \/ SortRaises(table, Head(statuses)) THEN <<>>
    ELSE <<status_breakdown(table, Head(statuses))>> \o breakdown(table, Tail(statuses))

NoHierarchy ==
    [shown |-> FALSE, total |-> 0, statuses |-> <<>>, summary |-> <<>>,
     breakdown |-> <<>>, raised |-> FALSE, df |-> [cols |-> {}, rows |-> <<>>]]

\* the three levels, and df as the call leaves it: every group is a selection
\* df[...] or a groupby of one, nothing is assigned to df
display_hierarchy_breakdown(table) ==
    [shown |-> TRUE,
     total |-> Len(table.rows),
     statuses |-> ordered_statuses(table),
     summary |-> status_summary(table),
     breakdown |-> breakdown(table, ordered_statuses(table)),
     raised |-> \E i \in 1..Len(ordered_statuses(table)) :
                   SortRaises(table, ordered_statuses(table)[i]),
     df |-> table]

-----------------------------------------------------------------------------
(* main: the owner filter *)

COL_OWNER == "custom.Asset_Owner"

\* dropna().unique(): the owners of the table
all_owners(table) == {v \in Unique(table, COL_OWNER) : ~isna(v)}

\* df[df[col].isin(values)], the rows kept in their order
RowsIn(table, col, values) ==
    LET Kept(row) == row[col] \in values
    IN  [cols |-> table.cols, rows |-> SelectSeq(table.rows, Kept)]

\* st.session_state.get("owner_<owner>", True): a checkbox never set is checked
Checked(owner) == IF owner \in DOMAIN session_state THEN session_state[owner] ELSE TRUE

selected_owners(table) == {owner \in all_owners(table) : Checked(owner)}

\* mutant: a record without an owner stays in the table
filtered_df_keep_null(table) ==
    IF COL_OWNER \in table.cols /\ all_owners(table) # {}
    THEN RowsIn(table, COL_OWNER, selected_owners(table) \cup {Null})
    ELSE table

filtered_df(table) ==
    IF COL_OWNER \in table.cols /\ all_owners(table) # {}
    THEN RowsIn(table, COL_OWNER, selected_owners(table))
    ELSE table

\* the branch of st.stop(): there are owners and none is selected
NoOwnerSelected(table) ==
    /\ COL_OWNER \in table.cols
    /\ all_owners(table) # {}
    /\ selected_owners(table) = {}

\* ', '.join(selected_owners) raises TypeError when a selected owner is a
\* number
OwnerFilterRaises(table) ==
    /\ COL_OWNER \in table.cols
    /\ \E owner \in selected_owners(table) : owner.k # "str"

-----------------------------------------------------------------------------
(* display_detailed_tables *)

ALL == Str("All")

status_order_map(v) ==
    CASE v = Str("Purchased") -> Whole(1)
      [] v = Str("Listed") -> Whole(2)
      [] v = Str("Under Contract") -> Whole(3)
      [] v = Str("Off Market") -> Whole(4)
      [] OTHER -> Null

fillna999(v) == IF isna(v) THEN Whole(999) ELSE v

\* table['_status_sort'] = table[status].map(status_order_map).fillna(999)
with_status_sort(table) ==
    [cols |-> table.cols \cup {"_status_sort"},
     rows |-> [i \in 1..Len(table.rows) |->
                 Put(table.rows[i], "_status_sort",
                     fillna999(status_order_map(table.rows[i][COL_STATUS])))]]

\* table.drop(col, axis=1)
drop(table, col) ==
    [cols |-> table.cols \ {col},
     rows |-> [i \in 1..Len(table.rows) |->
                 [c \in DOMAIN table.rows[i] \ {col} |-> table.rows[i][c]]]]

\* the order of sort_values on one column: ascending, NaN last
CellBefore(a, b) ==
    IF isna(a) THEN FALSE
    ELSE IF isna(b) THEN TRUE
    ELSE Less(a, b)

\* the lexicographic order of sort_values on the columns `by`
RECURSIVE RowBefore(_, _, _)
RowBefore(a, b, by) ==
    IF by = <<>> THEN FALSE
    ELSE \/ CellBefore(a[Head(by)], b[Head(by)])
         \/ /\ ~CellBefore(b[Head(by)], a[Head(by)])
            /\ RowBefore(a, b, Tail(by))

\* `row` put behind the rows of `rows` that do not come after it
RECURSIVE InsertRow(_, _, _)
InsertRow(rows, row, by) ==
    IF rows = <<>> THEN <<row>>
    ELSE IF RowBefore(row, Head(rows), by) THEN <<row>> \o rows
    ELSE <<Head(rows)>> \o InsertRow(Tail(rows), row, by)

RECURSIVE SortRows(_, _)
SortRows(rows, by) ==
    IF rows = <<>> THEN <<>>
    ELSE InsertRow(SortRows(SubSeq(rows, 1, Len(rows) - 1), by), rows[Len(rows)], by)

\* table.sort_values(by), rows with equal keys kept in their order
sort_values(table, by) == [cols |-> table.cols, rows |-> SortRows(table.rows, by)]

\* the columns of `names` the table has, in that order
Present(table, names) ==
    LET In(c) == c \in table.cols
    IN  SelectSeq(names, In)

status_options == <<ALL>> \o [i \in 1..Len(status_order) |-> Str(status_order[i])]

\* ["All"] + sorted(df[col].unique().tolist()), "All" alone without the column
options(table, col) ==
    IF col \in table.cols THEN <<ALL>> \o sorted(Unique(table, col)) ELSE <<ALL>>

\* the rows a filter keeps
apply_filter(table, col, choice) ==
    IF choice = ALL THEN table ELSE Where(table, col, choice)

\* mutant: sorted by state and county alone
default_sort_unkeyed(table) ==
    IF Len(table.rows) = 0 THEN table
    ELSE sort_values(table, Present(table, <<COL_STATE, COL_COUNTY>>))

\* a filtered table in the default order, the temporary column dropped
default_sort(table) ==
    IF Len(table.rows) = 0 THEN table
    ELSE LET keyed == IF COL_STATUS \in table.cols THEN with_status_sort(table) ELSE table
             by == Present(keyed, <<"_status_sort", COL_STATE, COL_COUNTY>>)
         IN  drop(sort_values(keyed, by), "_status_sort")

\* sorted() of the options raises on a column that mixes strings with NaN or
\* numbers; a status chosen without a status column is a KeyError
DetailRaises(table, status_filter) ==
    \/ COL_STATE \in table.cols /\ ~Comparable(Unique(table, COL_STATE))
    \/ COL_COUNTY \in table.cols /\ ~Comparable(Unique(table, COL_COUNTY))
    \/ status_filter # ALL /\ COL_STATUS \notin table.cols

\* mutant: the filters and the sort applied to df itself, no copy taken
display_detailed_tables_inplace(table, status_filter, state_filter, county_filter) ==
    LET filtered ==
            apply_filter(apply_filter(apply_filter(table,
                COL_STATUS, status_filter), COL_STATE, state_filter), COL_COUNTY, county_filter)
    IN  [shown |-> TRUE,
         raised |-> FALSE,
         status_filter |-> status_filter,
         state_filter |-> state_filter,
         county_filter |-> county_filter,
         table |-> default_sort(filtered),
         df |-> IF Len(filtered.rows) = 0 \/ COL_STATUS \notin table.cols
                THEN filtered
                ELSE sort_values(with_status_sort(filtered),
                                 Present(with_status_sort(filtered),
                                         <<"_status_sort", COL_STATE, COL_COUNTY>>))]

\* the table shown for a choice of the three filters, and df as the call leaves
\* it: every step works on filtered_df = df.copy() or on a new table
display_detailed_tables(table, status_filter, state_filter, county_filter) ==
    LET filtered ==
            apply_filter(apply_filter(apply_filter(table,
                COL_STATUS, status_filter), COL_STATE, state_filter), COL_COUNTY, county_filter)
    IN  [shown |-> TRUE,
         raised |-> FALSE,
         status_filter |-> status_filter,
         state_filter |-> state_filter,
         county_filter |-> county_filter,
         table |-> default_sort(filtered),
         df |-> table]

\* the page when the function raises before the table is drawn
DetailRaised(table) == [shown |-> TRUE, raised |-> TRUE, df |-> table]

-----------------------------------------------------------------------------
(* generate_inventory_report_pdf: the cells of a property row *)

NA == Str("N/A")

COL_LISTING_TYPE == "custom.Asset_Listing_Type"

\* the characters of a string cell: its pieces in one string
RECURSIVE Flat(_)
Flat(pieces) == IF pieces = <<>> THEN "" ELSE Head(pieces) \o Flat(Tail(pieces))

\* the characters of s from the i-th on
From(s, i) == SubSeq(s, i, Len(s))

\* the length of the first run of s without a blank
RECURSIVE WordLen(_)
WordLen(s) == IF s = "" \/ SubSeq(s, 1, 1) = " " THEN 0 ELSE 1 + WordLen(From(s, 2))

\* str.split(): the words of s, the runs between its blanks
RECURSIVE split(_)
split(s) ==
    IF s = "" THEN <<>>
    ELSE IF SubSeq(s, 1, 1) = " " THEN split(From(s, 2))
    ELSE <<SubSeq(s, 1, WordLen(s))>> \o split(From(s, WordLen(s) + 1))

\* the loop over the words: a word goes on the current line while the line
\* stays within limit, else the line is closed and the word starts the next
RECURSIVE lines(_, _, _)
lines(words, current_line, limit) ==
    IF words = <<>> THEN (IF current_line # "" THEN <<current_line>> ELSE <<>>)
    ELSE LET word == Head(words)
             test_line == IF current_line # "" THEN current_line \o " " \o word ELSE word
         IN  IF Len(test_line) <= limit
             THEN lines(Tail(words), test_line, limit)
             ELSE (IF current_line # "" THEN <<current_line>> ELSE <<>>)
                  \o lines(Tail(words), word, limit)

BR == "<br/>"

\* sep.join(items) in one string
RECURSIVE join(_, _)
join(items, sep) ==
    IF items = <<>> THEN ""
    ELSE IF Len(items) = 1 THEN items[1]
    ELSE items[1] \o sep \o join(Tail(items), sep)

\* mutant: a word that does not fit is cut to what is left of the line
wrap_text_smart_cut(cell, limit) ==
    IF isna(cell) \/ cell = Str("") THEN NA
    ELSE IF Len(Flat(cell.s)) <= limit THEN cell
    ELSE Str(SubSeq(Flat(cell.s), 1, limit))

\* wrap_text_smart(text, max_length) of a string cell
wrap_text_smart(cell, limit) ==
    IF isna(cell) \/ cell = Str("") THEN NA
    ELSE IF Len(Flat(cell.s)) <= limit THEN cell
    ELSE Str(join(lines(split(Flat(cell.s)), "", limit), BR))

\* the integer nearest to n/d (d > 0), a tie going to the even one
RoundHalfEven(n, d) ==
    LET q == n \div d
        r == n - q * d
    IN  IF 2 * r < d THEN q
        ELSE IF 2 * r > d THEN q + 1
        ELSE IF q % 2 = 0 THEN q ELSE q + 1

\* the digits with a comma before every group of three
RECURSIVE Grouped(_)
Grouped(digits) ==
    IF Len(digits) <= 3 THEN digits
    ELSE Grouped(SubSeq(digits, 1, Len(digits) - 3)) \o <<",">>
         \o SubSeq(digits, Len(digits) - 2, Len(digits))

\* the sign a format prints: a minus for every value below zero
Minus(v) == IF v.n < 0 THEN <<"-">> ELSE <<>>

\* f"{v:.0f}" and f"{v:,.0f}" of a number
Fixed0(v) ==
    IF v.k = "inf" THEN Minus(v) \o <<"inf">>
    ELSE Minus(v) \o Digits(RoundHalfEven(Abs(v.n), v.d))

Fixed0Grouped(v) ==
    IF v.k = "inf" THEN Minus(v) \o <<"inf">>
    ELSE Minus(v) \o Grouped(Digits(RoundHalfEven(Abs(v.n), v.d)))

\* f"{v:.1f}" of a number
Fixed1(v) ==
    IF v.k = "inf" THEN Minus(v) \o <<"inf">>
    ELSE LET tenths == RoundHalfEven(10 * Abs(v.n), v.d)
         IN  Minus(v) \o Digits(tenths \div 10) \o <<".">> \o Digits(tenths % 10)

\* v > 0 of a cell row.get returned; None > 0 is never evaluated
Positive(v) == v.k \in {"num", "inf"} /\ v.n > 0

\* f"${v:,.0f}" when the value is there and above zero
money_if_positive(v) ==
    IF NotNa(v) /\ Positive(v) THEN Text(<<"$">> \o Fixed0Grouped(v)) ELSE NA

\* f"${v:,.0f}" whenever the value is there
money_if_there(v) == IF NotNa(v) THEN Text(<<"$">> \o Fixed0Grouped(v)) ELSE NA

\* f"{v:.0f}%" whenever the value is there
percent_if_there(v) == IF NotNa(v) THEN Text(Fixed0(v) \o <<"%">>) ELSE NA

\* strftime('%m/%d/%Y') of the dates of the model
strftime(ts) ==
    CASE ts = 0 -> "01/01/2024"
      [] ts = 2 -> "01/02/2024"
      [] ts = 5 -> "01/03/2024"
      [] OTHER -> "01/01/1970"      \* the number 20240101, read as epoch ns

\* the date cell: the parsed date formatted, str(value) when it cannot be
\* parsed or formatted
date_purchased(v) ==
    IF isna(v) THEN NA
    ELSE LET parsed == to_datetime(v)
         IN  IF parsed.ok /\ ~parsed.nat THEN Str(strftime(parsed.ts))
             ELSE IF v.k = "str" THEN v
             ELSE Text(Fixed1(v))

acres_cell(v) == IF NotNa(v) THEN Text(Fixed1(v)) ELSE NA

\* the sixteen cells of one property row
report_row(row) ==
    [property_name |-> IF "display_name" \in DOMAIN row
                       THEN wrap_text_smart(row["display_name"], 25)
                       ELSE Str("Unknown Property"),
     owner |-> wrap_text_smart(IF COL_OWNER \in DOMAIN row THEN row[COL_OWNER] ELSE NA, 15),
     state |-> IF isna(row[COL_STATE]) THEN Str("nan") ELSE row[COL_STATE],
     county |-> wrap_text_smart(row[COL_COUNTY], 15),
     acres |-> acres_cell(Get(row, COL_ACRES)),
     date_purchased |-> date_purchased(Get(row, COL_PURCHASED)),
     cost_basis |-> money_if_positive(Get(row, COL_COST)),
     asking_price |-> money_if_positive(Get(row, COL_PRICE)),
     profit_margin |-> money_if_there(Get(row, "current_margin")),
     margin_pct |-> percent_if_there(Get(row, "current_margin_pct")),
     markup |-> percent_if_there(Get(row, "markup_percentage")),
     price_per_acre |-> money_if_positive(Get(row, "price_per_acre")),
     cost_per_acre |-> money_if_positive(Get(row, "cost_basis_per_acre")),
     original_price |-> money_if_positive(Get(row, COL_OLP)),
     percent_olp |-> percent_if_there(Get(row, "percent_of_initial_listing")),
     days_held |-> IF NotNa(Get(row, "days_held"))
                   THEN Text(Fixed0(Get(row, "days_held"))) ELSE NA]

-----------------------------------------------------------------------------
(* generate_inventory_report_pdf: the story *)

primary_sections ==
    <<[name |-> "Purchased (Primary)", status |-> "Purchased", listing_type |-> "Primary"],
      [name |-> "Listed (Primary)", status |-> "Listed", listing_type |-> "Primary"],
      [name |-> "Under Contract (Primary)", status |-> "Under Contract", listing_type |-> "Primary"],
      [name |-> "Off Market (Primary)", status |-> "Off Market", listing_type |-> "Primary"]>>

secondary_sections ==
    <<[name |-> "Listed (Secondary)", status |-> "Listed", listing_type |-> "Secondary"],
      [name |-> "Off Market (Secondary)", status |-> "Off Market", listing_type |-> "Secondary"]>>

\* one flowable of the story: its kind, its text or section, its table rows
Flowable(kind, name, rows) == [kind |-> kind, name |-> name, rows |-> rows]

PageBreak == Flowable("PageBreak", "", <<>>)
Spacer == Flowable("Spacer", "", <<>>)
Heading(name) == Flowable("Heading", name, <<>>)

\* df[(df[status] == s) & (df[listing type] == t)].copy()
section_df(table, section) ==
    Where(Where(table, COL_STATUS, Str(section.status)),
          COL_LISTING_TYPE, Str(section.listing_type))

\* the property rows of a section, sorted by state, county and property name
section_rows(table, section) ==
    LET ordered == sort_values(section_df(table, section),
                               <<COL_STATE, COL_COUNTY, "display_name">>)
    IN  [i \in 1..Len(ordered.rows) |-> report_row(ordered.rows[i])]

\* Series.sum() of a numeric column: NaN entries are skipped, an empty
\* column sums to 0
RECURSIVE sum(_, _)
sum(table, col) ==
    IF table.rows = <<>> THEN Whole(0)
    ELSE LET cell == Head(table.rows)[col]
             rest == sum([cols |-> table.cols, rows |-> Tail(table.rows)], col)
         IN  IF cell.k = "null" THEN rest
             ELSE Num(cell.n * rest.d + rest.n * cell.d, cell.d * rest.d)

\* the subtotals of a table: the number of properties, the total asking price
\* and the total cost basis
totals(table) ==
    [properties |-> Len(table.rows),
     total_asking |-> sum(table, COL_PRICE),
     total_cost |-> sum(table, COL_COST)]

\* header, table and subtotal block of a section that has records; of the
\* subtotal block the model keeps the number of properties and the two totals
section_flowables(table, section) ==
    LET rows == section_rows(table, section)
    IN  <<Heading(section.name)>>
        \o (IF Len(rows) > 0
            THEN <<Flowable("Table", section.name, rows), Spacer>> ELSE <<>>)
        \o <<Flowable("SectionSummary", section.name,
                      <<totals(section_df(table, section))>>), Spacer>>

\* mutant: no section is skipped
RECURSIVE sections_story_unskipped(_, _, _, _)
sections_story_unskipped(table, sections, section_count, paged) ==
    IF sections = <<>> THEN <<>>
    ELSE (IF paged /\ section_count > 0 THEN <<PageBreak>> ELSE <<>>)
         \o section_flowables(table, Head(sections))
         \o sections_story_unskipped(table, Tail(sections), section_count + 1, paged)

\* the loop over the sections: an empty section is skipped; `paged` sections
\* (the primary ones) start on a new page except the first one rendered
RECURSIVE sections_story(_, _, _, _)
sections_story(table, sections, section_count, paged) ==
    IF sections = <<>> THEN <<>>
    ELSE IF Len(section_df(table, Head(sections)).rows) = 0
    THEN sections_story(table, Tail(sections), section_count, paged)
    ELSE (IF paged /\ section_count > 0 THEN <<PageBreak>> ELSE <<>>)
         \o section_flowables(table, Head(sections))
         \o sections_story(table, Tail(sections), section_count + 1, paged)

\* the records of the four known statuses marked Primary
primary_data_for_summary(table) ==
    LET Known(row) == /\ row[COL_STATUS] \in {Str(status_order[i]) : i \in 1..Len(status_order)}
                      /\ row[COL_LISTING_TYPE] = Str("Primary")
    IN  [cols |-> table.cols, rows |-> SelectSeq(table.rows, Known)]

PRIMARY_PORTFOLIO_SUMMARY == "Primary Portfolio Summary"
DEFINITIONS == "Definitions"
DISCLAIMER == "Disclaimer: This data is sourced from our CRM"

\* mutant: the summary over every record of the four known statuses
portfolio_summary_all_listing_types(table) ==
    <<Heading(PRIMARY_PORTFOLIO_SUMMARY),
      Flowable("PortfolioSummary", "",
               <<totals([cols |-> table.cols,
                         rows |-> SelectSeq(table.rows,
                             LAMBDA row : row[COL_STATUS] \in
                                 {Str(status_order[i]) : i \in 1..Len(status_order)})])>>),
      Spacer, PageBreak>>

\* the portfolio summary, of which the model keeps the number of properties and
\* the two totals
portfolio_summary(table) ==
    <<Heading(PRIMARY_PORTFOLIO_SUMMARY),
      Flowable("PortfolioSummary", "", <<totals(primary_data_for_summary(table))>>),
      Spacer, PageBreak>>

\* the glossary: its heading and the five groups of definitions
definitions_story ==
    <<PageBreak, Heading(DEFINITIONS), Spacer,
      Flowable("Glossary", "Financial Terms", <<>>),
      Flowable("Glossary", "Time & Status Terms", <<>>),
      Flowable("Glossary", "Status Categories", <<>>),
      Flowable("Glossary", "Listing Types", <<>>),
      Flowable("Glossary", "Property Information", <<>>),
      Spacer>>

\* mutant: the secondary sections ahead of the portfolio summary
story_secondary_first(table) ==
    <<Flowable("Title", "Remarkable Land LLC - Inventory Report", <<>>),
      Flowable("Generated", "", <<>>)>>
    \o sections_story(table, primary_sections, 0, TRUE)
    \o sections_story(table, secondary_sections, 0, FALSE)
    \o portfolio_summary(table)
    \o definitions_story
    \o <<Flowable("Disclaimer", DISCLAIMER, <<>>)>>

story(table) ==
    <<Flowable("Title", "Remarkable Land LLC - Inventory Report", <<>>),
      Flowable("Generated", "", <<>>)>>
    \o sections_story(table, primary_sections, 0, TRUE)
    \o portfolio_summary(table)
    \o sections_story(table, secondary_sections, 0, FALSE)
    \o definitions_story
    \o <<Flowable("Disclaimer", DISCLAIMER, <<>>)>>

\* df[col] of a column the table lacks is a KeyError: the status and listing
\* type columns always, the sort columns as soon as a section has records, the
\* asking price and cost basis in the totals of the summaries
InventoryRaises(table) ==
    \/ ~({COL_STATUS, COL_LISTING_TYPE} \subseteq table.cols)
    \/ ~({COL_PRICE, COL_COST} \subseteq table.cols)
    \/ /\ ~({COL_STATE, COL_COUNTY, "display_name"} \subseteq table.cols)
       /\ \E section \in Range(primary_sections \o secondary_sections) :
             Len(section_df(table, section).rows) > 0

\* the report of a table, and df as the call leaves it: every section works on
\* a copy
generate_inventory_report_pdf(table) ==
    [made |-> TRUE, raised |-> FALSE, story |-> story(table), df |-> table]

InventoryRaised(table) == [made |-> TRUE, raised |-> TRUE, story |-> <<>>, df |-> table]

-----------------------------------------------------------------------------
(* generate_missing_fields_checklist_pdf *)

\* mutant: the incomplete records of the selected owners only
incomplete_properties_selected(table) ==
    LET Incomplete(row) == row["missing_information"] # Str(COMPLETE)
        incomplete == [cols |-> table.cols, rows |-> SelectSeq(filtered_df(table).rows, Incomplete)]
        keyed == IF COL_STATUS \in table.cols THEN with_status_sort(incomplete) ELSE incomplete
        by == Present(keyed, <<"_status_sort", COL_STATE, COL_COUNTY, "display_name">>)
    IN  IF Len(incomplete.rows) = 0 \/ by = <<>> THEN incomplete
        ELSE drop(sort_values(keyed, by), "_status_sort")

\* df[df['missing_information'] != Complete].copy(), put in the order of status
\* rank, state, county and name, the temporary column dropped
incomplete_properties(table) ==
    LET Incomplete(row) == row["missing_information"] # Str(COMPLETE)
        incomplete == [cols |-> table.cols, rows |-> SelectSeq(table.rows, Incomplete)]
        keyed == IF COL_STATUS \in table.cols THEN with_status_sort(incomplete) ELSE incomplete
        by == Present(keyed, <<"_status_sort", COL_STATE, COL_COUNTY, "display_name">>)
    IN  IF Len(incomplete.rows) = 0 \/ by = <<>> THEN incomplete
        ELSE drop(sort_values(keyed, by), "_status_sort")

\* status.upper() of a status that is NaN and property_name[:60] of a name that
\* is NaN are raised on the first incomplete record that has one
ChecklistRaises(table) ==
    \E i \in 1..Len(incomplete_properties(table).rows) :
       LET row == incomplete_properties(table).rows[i]
       IN  \/ COL_STATUS \in table.cols /\ isna(row[COL_STATUS])
           \/ "display_name" \in table.cols /\ isna(row["display_name"])

\* s.startswith(prefix)
startswith(s, prefix) == Len(s) >= Len(prefix) /\ SubSeq(s, 1, Len(prefix)) = prefix

\* where sub first occurs in s, counted from 1, or 0
find(s, sub) ==
    LET hits == {i \in 1..(Len(s) - Len(sub) + 1) : SubSeq(s, i, i + Len(sub) - 1) = sub}
    IN  IF hits = {} THEN 0 ELSE CHOOSE i \in hits : \A j \in hits : i <= j

\* s.replace(old, ''): s without the occurrences of old, taken from the left
RECURSIVE remove(_, _)
remove(s, old) ==
    IF find(s, old) = 0 THEN s
    ELSE SubSeq(s, 1, find(s, old) - 1) \o remove(From(s, find(s, old) + Len(old)), old)

\* s.split(sep): the stretches of s between the occurrences of sep
RECURSIVE split_at(_, _)
split_at(s, sep) ==
    IF find(s, sep) = 0 THEN <<s>>
    ELSE <<SubSeq(s, 1, find(s, sep) - 1)>> \o split_at(From(s, find(s, sep) + Len(sep)), sep)

\* s.strip() of the blanks at both ends
RECURSIVE strip(_)
strip(s) ==
    IF s = "" THEN ""
    ELSE IF SubSeq(s, 1, 1) = " " THEN strip(From(s, 2))
    ELSE IF SubSeq(s, Len(s), Len(s)) = " " THEN strip(SubSeq(s, 1, Len(s) - 1))
    ELSE s

FIELD_WIDTH == 18   \* characters of a label a checkbox shows

CHECKBOX == "[ ] "

\* mutant: a label cut at the width without the dots
short_field_cut(field) ==
    IF Len(field) > FIELD_WIDTH THEN SubSeq(field, 1, FIELD_WIDTH) ELSE field

\* field[:18] + ('...' if len(field) > 18 else '')
short_field(field) ==
    IF Len(field) > FIELD_WIDTH THEN SubSeq(field, 1, FIELD_WIDTH) \o "..." ELSE field

\* the rows of three checkboxes of one property: the missing_information text
\* without its prefix, split at the commas, each label stripped and shortened
checklist_table(missing_info) ==
    IF ~startswith(missing_info, MISSING_PREFIX) THEN <<>>
    ELSE LET stretches == split_at(remove(missing_info, MISSING_PREFIX), ",")
             missing_fields_list == [i \in 1..Len(stretches) |-> strip(stretches[i])]
             n == Len(missing_fields_list)
         IN  [i \in 1..((n + 2) \div 3) |->
                [j \in 1..3 |->
                   IF 3 * (i - 1) + j <= n
                   THEN CHECKBOX \o short_field(missing_fields_list[3 * (i - 1) + j])
                   ELSE ""]]

\* the records the checklist lists, each with its rows of checkboxes, and df
\* as the call leaves it: the sort column is added to the copy of the
\* incomplete records
generate_missing_fields_checklist_pdf(table) ==
    LET listed == incomplete_properties(table).rows
    IN  [made |-> TRUE, raised |-> FALSE,
         properties |-> listed,
         tables |-> [i \in 1..Len(listed) |->
                       checklist_table(Flat(listed[i]["missing_information"].s))],
         df |-> table]

ChecklistRaised(table) ==
    [made |-> TRUE, raised |-> TRUE, properties |-> <<>>, tables |-> <<>>, df |-> table]

-----------------------------------------------------------------------------
(* main: the data validation warnings *)

valid_statuses == {Str("Purchased"), Str("Listed"), Str("Under Contract"), Str("Off Market")}
valid_types == {Str("Primary"), Str("Secondary")}

\* an issue for a column that is absent, or that holds a record failing Ok
ColumnIssue(table, col, Ok(_), issue, missing_column) ==
    IF col \in table.cols
    THEN IF \E i \in 1..Len(table.rows) : ~Ok(table.rows[i][col]) THEN {issue} ELSE {}
    ELSE {missing_column}

validation_issues(table) ==
    LET StatusOk(v) == v \in valid_statuses
        TypeOk(v) == v \in valid_types
        OwnerOk(v) == NotNa(v) /\ v # Str("")
        CostOk(v) == NotNa(v) /\ ~IsZero(v) /\ v # Str("")
        PriceOk(v) == NotNa(v) /\ Positive(v)
    IN  ColumnIssue(table, COL_STATUS, StatusOk,
                    "FATAL: Invalid/Missing Status", "FATAL: Missing Status Column")
        \cup ColumnIssue(table, COL_LISTING_TYPE, TypeOk,
                    "FATAL: Invalid/Missing Listing Type", "FATAL: Missing Listing Type Column")
        \cup ColumnIssue(table, COL_OWNER, OwnerOk,
                    "WARNING: Missing Owner", "WARNING: Missing Owner Column")
        \cup ColumnIssue(table, COL_COST, CostOk,
                    "FATAL: Missing/Zero Cost Basis", "FATAL: Missing Cost Basis Column")
        \cup ColumnIssue(table, COL_PRICE, PriceOk,
                    "FATAL: Missing/Zero Asking Price", "FATAL: Missing Asking Price Column")

-----------------------------------------------------------------------------
(* The uploaded tables *)

RequiredKeys == {required_fields[i][1] : i \in 1..Len(required_fields)}

AllColumns == RequiredKeys \cup {COL_PRICE, COL_STATUS, "display_name"}

\* a complete record: cost 100000, asking 150000, 50 acres, listed at 180000
BaseRow ==
    [c \in AllColumns |->
        CASE c = COL_PRICE -> Whole(150000)
          [] c = COL_COST -> Whole(100000)
          [] c = COL_ACRES -> Whole(50)
          [] c = COL_OLP -> Whole(180000)
          [] c = "avg_one_time_active_opportunity_value" -> Whole(150000)
          [] c = COL_STATUS -> Str("Listed")
          [] c = COL_STATE -> Str("TX")
          [] c = COL_COUNTY -> Str("Bexar")
          [] c = COL_PURCHASED -> Str("2024-01-01")
          [] c = "custom.Asset_MLS_Listing_Date" -> Str("2024-01-02")
          [] c = "custom.Asset_Last_Mapping_Audit" -> Str("2024-01-02")
          [] c = COL_OWNER -> Str("Owner A")
          [] c = "custom.Asset_Listing_Type" -> Str("Primary")
          [] c = "display_name" -> Str("Parcel 1")
          [] OTHER -> Str("on file")]

\* marks a column the upload does not have
Absent == [k |-> "absent", s |-> <<>>, n |-> 0, d |-> 1]

\* BaseRow with the cells of `over` in place of its own, less the Absent ones
RowWith(over) ==
    LET full == [c \in AllColumns |-> IF c \in DOMAIN over THEN over[c] ELSE BaseRow[c]]
    IN  [c \in {x \in AllColumns : full[x] # Absent} |-> full[c]]

OneRow(over) == [cols |-> DOMAIN RowWith(over), rows |-> <<RowWith(over)>>]

\* asking prices: every last digit, below 10, fractional, negative, zero,
\* missing, unparseable, numeric text
PriceCells ==
    {Whole(p) : p \in 149990..149999} \cup
    {Whole(7), Whole(10), Num(39, 2), Num(1, 2), Whole(-15), Num(-5, 2), Whole(0),
     Null, Str("abc"), Str("$1,200"), Str("150000"), Str("12.5")}

PriceTables == {OneRow(COL_PRICE :> p) : p \in PriceCells \cup {Absent}}

\* the four numeric inputs of the ratios, each absent, null, unparseable, zero
\* or one of two amounts
RatioPrices == {Absent, Null, Str("abc"), Whole(0), Whole(150000), Num(39, 2)}
RatioCosts == {Absent, Null, Str("abc"), Whole(0), Whole(100000), Whole(200000)}
RatioAcres == {Absent, Null, Str("abc"), Whole(0), Whole(50), Num(25, 2)}
RatioOlps == {Absent, Null, Str("abc"), Whole(0), Whole(180000), Whole(120000)}

RatioTables ==
    {OneRow(COL_PRICE :> p @@ COL_COST :> c @@ COL_ACRES :> a @@ COL_OLP :> o) :
        p \in RatioPrices, c \in RatioCosts, a \in RatioAcres, o \in RatioOlps}

StatusCells ==
    {Str("Purchased"), Str("Listed"), Str("Under Contract"), Str("Off Market"),
     Str("Zzz-Unknown"), Null}

\* purchase dates: absent, null, empty, unparseable, a number, past and future
DateCells ==
    {Absent, Null, Str(""), Str("not a date"), Whole(20240101),
     Str("2024-01-01"), Str("2024-01-02"), Str("2024-01-03 12:00")}

DateTables ==
    {OneRow(COL_PURCHASED :> p @@ COL_STATUS :> s) :
        p \in DateCells, s \in StatusCells \cup {Absent}}

\* what a required field can hold instead of a proper value
DefectCells(key) ==
    {Absent, Null, Str(""), Str("Unknown"), Str("Unknown County")} \cup
    (IF key = COL_COUNTY THEN {Str("unknown"), Str("unknown county"), Str("bexar")}
     ELSE {Str("abc")}) \cup
    (IF key \in {COL_COST, COL_ACRES, COL_OLP, "avg_one_time_active_opportunity_value"}
     THEN {Whole(0)} ELSE {})

\* one defective required field of any kind, two absent or null ones, or none
FieldTables ==
    UNION {{OneRow(k :> v) : v \in DefectCells(k)} : k \in RequiredKeys}
    \cup {OneRow(k1 :> v1 @@ k2 :> v2) :
            k1 \in RequiredKeys, k2 \in RequiredKeys, v1 \in {Absent, Null}, v2 \in {Absent, Null}}
    \cup {OneRow([k \in RequiredKeys |-> Absent])}

\* several records that differ in status
PortfolioTables ==
    UNION {{[cols |-> AllColumns,
             rows |-> [i \in 1..m |-> RowWith(COL_STATUS :> st[i])]] :
                st \in [1..m -> StatusCells]} : m \in 1..MaxRows}

\* (status, state, county) of the records of a portfolio spread over places: a
\* county on file, a missing one, one literally named Unknown, another state, a
\* missing state, a status outside status_order
PlaceRows ==
    {RowWith(COL_STATUS :> Str("Listed") @@ COL_STATE :> Str("TX") @@ COL_COUNTY :> Str("Bexar")),
     RowWith(COL_STATUS :> Str("Listed") @@ COL_STATE :> Str("TX") @@ COL_COUNTY :> Null),
     RowWith(COL_STATUS :> Str("Listed") @@ COL_STATE :> Str("TX") @@ COL_COUNTY :> Str("Unknown")),
     RowWith(COL_STATUS :> Str("Purchased") @@ COL_STATE :> Str("OK") @@ COL_COUNTY :> Null),
     RowWith(COL_STATUS :> Str("Listed") @@ COL_STATE :> Null @@ COL_COUNTY :> Null),
     RowWith(COL_STATUS :> Str("Zzz-Unknown") @@ COL_STATE :> Str("TX") @@ COL_COUNTY :> Null)}

\* the tables of 1..MaxRows rows drawn from a set of rows
TablesOf(rowset) ==
    UNION {{[cols |-> AllColumns, rows |-> rows] : rows \in [1..m -> rowset]} : m \in 1..MaxRows}

PlaceTables == TablesOf(PlaceRows)

\* records that differ in what the derived fields are computed from: a full
\* record, no asking price and a later purchase, no acreage and no county, a
\* price marked down four times below the cost basis, a price kept as text
MixedRows ==
    {BaseRow,
     RowWith(COL_PRICE :> Null @@ COL_COST :> Str("abc") @@ COL_PURCHASED :> Str("2024-01-02")),
     RowWith(COL_ACRES :> Whole(0) @@ COL_OLP :> Null @@ COL_COUNTY :> Null @@ COL_PURCHASED :> Null),
     RowWith(COL_PRICE :> Whole(149995) @@ COL_COST :> Whole(200000) @@ "custom.All_APN" :> Null),
     RowWith(COL_PRICE :> Str("12.5") @@ COL_COUNTY :> Str("bexar")
             @@ COL_PURCHASED :> Str("2024-01-03 12:00"))}

MixedTables == TablesOf(MixedRows)

\* records to filter and sort: three known statuses and an unknown one, two
\* states and a missing one, three counties
DetailRows ==
    {RowWith(COL_STATUS :> Str("Listed") @@ COL_STATE :> Str("TX") @@ COL_COUNTY :> Str("Bexar")),
     RowWith(COL_STATUS :> Str("Purchased") @@ COL_STATE :> Str("TX") @@ COL_COUNTY :> Null),
     RowWith(COL_STATUS :> Str("Off Market") @@ COL_STATE :> Str("OK") @@ COL_COUNTY :> Str("Unknown")),
     RowWith(COL_STATUS :> Str("Zzz-Unknown") @@ COL_STATE :> Str("TX") @@ COL_COUNTY :> Str("Bexar")),
     RowWith(COL_STATUS :> Str("Zzz-Unknown") @@ COL_STATE :> Null @@ COL_COUNTY :> Str("Bexar"))}

DetailTables == TablesOf(DetailRows)

\* (status, listing type) of the records of a report: two primary sections, a
\* secondary one, and a secondary purchase
SectionRows ==
    {RowWith(COL_STATUS :> Str("Purchased") @@ COL_LISTING_TYPE :> Str("Primary")),
     RowWith(COL_STATUS :> Str("Off Market") @@ COL_LISTING_TYPE :> Str("Primary")
             @@ COL_PRICE :> Whole(120000) @@ COL_COST :> Null),
     RowWith(COL_STATUS :> Str("Listed") @@ COL_LISTING_TYPE :> Str("Secondary")
             @@ COL_PRICE :> Whole(80000) @@ COL_COST :> Whole(30000)),
     RowWith(COL_STATUS :> Str("Purchased") @@ COL_LISTING_TYPE :> Str("Secondary")
             @@ COL_PRICE :> Whole(60000))}

SectionTables == TablesOf(SectionRows)

\* one record with a status or a listing type that validation rejects
InvalidTables ==
    {OneRow(COL_STATUS :> st @@ COL_LISTING_TYPE :> lt) :
        st \in {Str("Listed"), Str("Zzz-Unknown"), Null},
        lt \in {Str("Primary"), Str("Tertiary"), Null, Absent}}

\* one record whose amounts are absent, missing, zero or set, never listed or
\* listed and bought on the first day or on the day after it
CellTables ==
    {OneRow(COL_PRICE :> p @@ COL_COST :> c @@ COL_ACRES :> a @@ COL_OLP :> od[1]
            @@ COL_PURCHASED :> od[2]) :
        p \in {Absent, Whole(0), Whole(150000)},
        c \in {Whole(0), Whole(100000), Whole(200000)},
        a \in {Absent, Null, Whole(50)},
        od \in {<<Whole(0), Null>>, <<Whole(180000), Str("2024-01-01")>>,
                <<Whole(180000), Str("2024-01-02")>>}}

\* the columns the report reads with df[col]
ReportColumns ==
    {COL_STATUS, COL_LISTING_TYPE, COL_PRICE, COL_COST, COL_STATE, COL_COUNTY, "display_name"}

\* one record of an upload that lacks one of them
LackingTables == {OneRow(c :> Absent) : c \in ReportColumns}

ReportTables == SectionTables \cup InvalidTables \cup CellTables \cup LackingTables

Tables == PriceTables \cup RatioTables \cup DateTables \cup FieldTables \cup PortfolioTables

NoTable == [cols |-> {}, rows |-> <<>>]

-----------------------------------------------------------------------------
(* The run: upload, derive, view *)

NoEarlier == [done |-> FALSE, now |-> 0, processed_df |-> NoTable]
NoDetail == [shown |-> FALSE]
NoInventory == [made |-> FALSE]
NoChecklist == [made |-> FALSE]

NotCalled == [called |-> FALSE]

\* the page before a file is uploaded
NoFile ==
    /\ phase = "idle"
    /\ df = NoTable
    /\ now = 0
    /\ processed_df = NoTable
    /\ hierarchy = NoHierarchy
    /\ earlier = NoEarlier
    /\ detail = NoDetail
    /\ inventory = NoInventory
    /\ checklist = NoChecklist
    /\ errors = {}
    /\ session_state = <<>>

Init ==
    /\ NoFile
    /\ wrap_text = Null
    /\ wrap_max_length = 30
    /\ wrapped = NotCalled

\* main: df = pd.read_csv(uploaded_file)
Upload ==
    /\ phase = "idle"
    /\ \E table \in Tables : df' = table
    /\ phase' = "uploaded"
    /\ UNCHANGED <<now, processed_df, earlier, outputs, errors, call, session_state>>

\* main: processed_df = process_data(df), at the instant t
ProcessData ==
    /\ phase = "uploaded"
    /\ \E t \in 0..MaxNow :
          /\ now' = t
          /\ processed_df' = process_data(df, t)
    /\ phase' = "processed"
    /\ UNCHANGED <<df, earlier, outputs, errors, call, session_state>>

ERROR_IN_PROCESS_DATA == "Error in process_data"

\* main: processed_df = process_data(df) when something inside the try block
\* of process_data raises, whatever the cause: the except branch reports it
\* and returns basic_df
ProcessDataFails ==
    /\ phase = "uploaded"
    /\ processed_df' = process_data_except(df)
    /\ errors' = errors \cup {ERROR_IN_PROCESS_DATA}
    /\ phase' = "processed"
    /\ UNCHANGED <<df, now, earlier, outputs, call, session_state>>

ERROR_PROCESSING_FILE == "Error processing file"

\* main: the Generate PDF Checklist button, above the owner filter and the
\* views, which hands the whole processed table to
\* generate_missing_fields_checklist_pdf
GenerateChecklist ==
    /\ phase = "processed"
    /\ ~checklist.made
    /\ ~hierarchy.shown
    /\ IF ChecklistRaises(processed_df)
       THEN /\ checklist' = ChecklistRaised(processed_df)
            /\ errors' = errors \cup {ERROR_PROCESSING_FILE}
       ELSE /\ checklist' = generate_missing_fields_checklist_pdf(processed_df)
            /\ errors' = errors
    /\ UNCHANGED <<phase, df, now, processed_df, earlier, hierarchy, detail, inventory, call, session_state>>

\* main: display_hierarchy_breakdown(filtered_df); what it raises is caught by
\* the except of main, which ends the run with an error message
DisplayHierarchyBreakdown ==
    /\ phase = "processed"
    /\ ~(checklist.made /\ checklist.raised)
    /\ ~NoOwnerSelected(processed_df)
    /\ ~OwnerFilterRaises(processed_df)
    /\ hierarchy' = display_hierarchy_breakdown(filtered_df(processed_df))
    /\ errors' = IF hierarchy'.raised THEN errors \cup {ERROR_PROCESSING_FILE} ELSE errors
    /\ UNCHANGED <<phase, df, now, processed_df, earlier, detail, inventory, checklist, call, session_state>>

\* main: display_detailed_tables(filtered_df), reached once in a run of the
\* script when the hierarchy did not raise, with the user's choice in the
\* three select boxes
DisplayDetailedTables ==
    /\ phase = "processed"
    /\ hierarchy.shown /\ ~hierarchy.raised
    /\ ~detail.shown
    /\ LET table == filtered_df(processed_df)
       IN  \E status_filter \in Range(status_options) :
              IF DetailRaises(table, status_filter)
              THEN /\ detail' = DetailRaised(table)
                   /\ errors' = errors \cup {ERROR_PROCESSING_FILE}
              ELSE /\ \E state_filter \in Range(options(table, COL_STATE)),
                         county_filter \in Range(options(table, COL_COUNTY)) :
                         detail' = display_detailed_tables(table, status_filter,
                                                           state_filter, county_filter)
                   /\ errors' = errors
    /\ UNCHANGED <<phase, df, now, processed_df, earlier, hierarchy, inventory, checklist, call, session_state>>

\* display_detailed_tables: the Generate Inventory Report button, which hands
\* the filtered and sorted detail table to generate_inventory_report_pdf
GenerateInventoryReport ==
    /\ phase = "processed"
    /\ detail.shown /\ ~detail.raised
    /\ ~inventory.made
    /\ IF InventoryRaises(detail.table)
       THEN /\ inventory' = InventoryRaised(detail.table)
            /\ errors' = errors \cup {ERROR_PROCESSING_FILE}
       ELSE /\ inventory' = generate_inventory_report_pdf(detail.table)
            /\ errors' = errors
    /\ UNCHANGED <<phase, df, now, processed_df, earlier, hierarchy, detail, checklist, call, session_state>>

Next == Upload \/ ProcessData \/ DisplayHierarchyBreakdown

Spec == Init /\ [][Next]_vars

-----------------------------------------------------------------------------
(* The script run again over the same file *)

\* main: df = pd.read_csv(uploaded_file), the file holding mixed records
UploadMixed ==
    /\ phase = "idle"
    /\ \E table \in MixedTables : df' = table
    /\ phase' = "uploaded"
    /\ UNCHANGED <<now, processed_df, earlier, outputs, errors, call, session_state>>

\* a rerun of main at the instant t, not before the previous pass: the file is
\* read and process_data is called again
Reprocess ==
    /\ phase = "processed"
    /\ \E t \in now..MaxNow :
          /\ now' = t
          /\ processed_df' = process_data(df, t)
    /\ earlier' = [done |-> TRUE, now |-> now, processed_df |-> processed_df]
    /\ UNCHANGED <<phase, df, outputs, errors, call, session_state>>

RerunNext == UploadMixed \/ ProcessData \/ Reprocess

RerunSpec == Init /\ [][RerunNext]_vars

-----------------------------------------------------------------------------
(* A session that browses the detail table *)

\* main: df = pd.read_csv(uploaded_file), the file holding records to browse
UploadDetail ==
    /\ phase = "idle"
    /\ \E table \in DetailTables : df' = table
    /\ phase' = "uploaded"
    /\ UNCHANGED <<now, processed_df, earlier, outputs, errors, call, session_state>>

DetailNext ==
    UploadDetail \/ ProcessData \/ DisplayHierarchyBreakdown \/ DisplayDetailedTables

DetailSpec == Init /\ [][DetailNext]_vars

-----------------------------------------------------------------------------
(* A session that exports the inventory report *)

\* main: df = pd.read_csv(uploaded_file), the file holding records to report
UploadReport ==
    /\ phase = "idle"
    /\ \E table \in ReportTables : df' = table
    /\ phase' = "uploaded"
    /\ UNCHANGED <<now, processed_df, earlier, outputs, errors, call, session_state>>

ReportNext ==
    \/ UploadReport
    \/ ProcessData
    \/ DisplayHierarchyBreakdown
    \/ DisplayDetailedTables
    \/ GenerateInventoryReport

ReportSpec == Init /\ [][ReportNext]_vars

-----------------------------------------------------------------------------
(* A session that uses every view and export, run after run *)

\* a complete record, an incomplete one that sorts before it, an incomplete one
\* without a status
FrameRows ==
    {BaseRow,
     RowWith(COL_STATUS :> Str("Purchased") @@ COL_STATE :> Str("OK") @@ "custom.All_APN" :> Null),
     RowWith(COL_STATUS :> Null @@ "custom.All_APN" :> Null)}

FrameTables == TablesOf(FrameRows)

\* main: df = pd.read_csv(uploaded_file), the file holding these records
UploadFrame ==
    /\ phase = "idle"
    /\ \E table \in FrameTables : df' = table
    /\ phase' = "uploaded"
    /\ UNCHANGED <<now, processed_df, earlier, outputs, errors, call, session_state>>

\* a widget is touched: the script starts again from the uploaded file and
\* draws the page anew
Rerun ==
    /\ phase = "processed"
    /\ phase' = "uploaded"
    /\ now' = 0
    /\ processed_df' = NoTable
    /\ hierarchy' = NoHierarchy
    /\ detail' = NoDetail
    /\ inventory' = NoInventory
    /\ checklist' = NoChecklist
    /\ errors' = {}
    /\ UNCHANGED <<df, earlier, call, session_state>>

FrameNext ==
    \/ UploadFrame
    \/ ProcessData
    \/ ProcessDataFails
    \/ GenerateChecklist
    \/ DisplayHierarchyBreakdown
    \/ DisplayDetailedTables
    \/ GenerateInventoryReport
    \/ Rerun

FrameSpec == Init /\ [][FrameNext]_vars

-----------------------------------------------------------------------------
(* A session that exports the checklist *)

\* the keys of the first m required fields
FirstKeys(m) == {required_fields[i][1] : i \in 1..m}

\* the keys of the last m required fields
LastKeys(m) == {required_fields[i][1] : i \in (Len(required_fields) - m + 1)..Len(required_fields)}

\* one record of an upload without the columns of some required fields: none
\* to all of them from either end of required_fields, or a single one
ChecklistTables ==
    {OneRow([k \in keys |-> Absent]) :
        keys \in {FirstKeys(m) : m \in 0..Len(required_fields)}
                 \cup {LastKeys(m) : m \in 0..Len(required_fields)}
                 \cup {{k} : k \in RequiredKeys}}

\* main: df = pd.read_csv(uploaded_file), the file holding an incomplete record
UploadChecklist ==
    /\ phase = "idle"
    /\ \E table \in ChecklistTables : df' = table
    /\ phase' = "uploaded"
    /\ UNCHANGED <<now, processed_df, earlier, outputs, errors, call, session_state>>

ChecklistNext == UploadChecklist \/ ProcessData \/ ProcessDataFails \/ GenerateChecklist

ChecklistSpec == Init /\ [][ChecklistNext]_vars

-----------------------------------------------------------------------------
(* A session over records without a usable status *)

\* a complete listed record, and incomplete ones whose status is missing or
\* is none of status_order
StatusRows ==
    {BaseRow,
     RowWith(COL_STATUS :> Null @@ "custom.All_APN" :> Null),
     RowWith(COL_STATUS :> Str("Zzz-Unknown") @@ "custom.All_APN" :> Null)}

StatusTables == TablesOf(StatusRows)

\* main: df = pd.read_csv(uploaded_file), the file holding these records
UploadStatus ==
    /\ phase = "idle"
    /\ \E table \in StatusTables : df' = table
    /\ phase' = "uploaded"
    /\ UNCHANGED <<now, processed_df, earlier, outputs, errors, call, session_state>>

StatusNext ==
    \/ UploadStatus
    \/ ProcessData
    \/ GenerateChecklist
    \/ DisplayHierarchyBreakdown
    \/ DisplayDetailedTables

StatusSpec == Init /\ [][StatusNext]_vars

-----------------------------------------------------------------------------
(* wrap_text_smart called on its own *)

MaxTokens == 5      \* tokens of a text to wrap

\* what the texts are made of: two words, a blank, and the markup of a break
Tokens == {"a", "bb", " ", BR}

\* None, the empty text and the texts of up to MaxTokens tokens
WrapTexts ==
    {Null} \cup
    UNION {{Str(Flat(tokens)) : tokens \in [1..m -> Tokens]} : m \in 0..MaxTokens}

\* values of max_length short enough for these texts to exceed
WrapLimits == {3, 6}

WrapInit ==
    /\ NoFile
    /\ wrap_text \in WrapTexts
    /\ wrap_max_length \in WrapLimits
    /\ wrapped = NotCalled

\* wrapped = wrap_text_smart(text, max_length)
WrapTextSmart ==
    /\ ~wrapped.called
    /\ wrapped' = [called |-> TRUE, value |-> wrap_text_smart(wrap_text, wrap_max_length)]
    /\ UNCHANGED <<phase, df, now, processed_df, earlier, outputs, errors,
                   wrap_text, wrap_max_length, session_state>>

WrapNext == WrapTextSmart

WrapSpec == WrapInit /\ [][WrapNext]_vars

-----------------------------------------------------------------------------
(* A session in which the user ticks owners and takes both exports *)

\* records of two owners and one without an owner; the second owner's record
\* and the ownerless one are incomplete
OwnerRows ==
    {BaseRow,
     RowWith(COL_OWNER :> Str("Owner B") @@ COL_STATUS :> Str("Purchased")
             @@ "custom.All_APN" :> Null),
     RowWith(COL_OWNER :> Null)}

\* an upload whose owner column holds numbers
NumberedOwners == OneRow(COL_OWNER :> Whole(7))

\* portfolios of three records, and the numbered one
OwnerTables ==
    {[cols |-> AllColumns, rows |-> rows] : rows \in [1..3 -> OwnerRows]}
    \cup {NumberedOwners}

UploadOwners ==
    /\ phase = "idle"
    /\ \E table \in OwnerTables : df' = table
    /\ phase' = "uploaded"
    /\ UNCHANGED <<now, processed_df, earlier, outputs, errors, call, session_state>>

\* main: the user ticks or unticks owner checkboxes; every checkbox returns
\* its state into st.session_state and the script runs again
CheckOwners ==
    /\ phase = "processed"
    /\ ~(checklist.made /\ checklist.raised)
    /\ COL_OWNER \in processed_df.cols
    /\ \E ticked \in SUBSET all_owners(processed_df) :
          session_state' = [owner \in all_owners(processed_df) |-> owner \in ticked]
    /\ phase' = "uploaded"
    /\ now' = 0
    /\ processed_df' = NoTable
    /\ hierarchy' = NoHierarchy
    /\ detail' = NoDetail
    /\ inventory' = NoInventory
    /\ checklist' = NoChecklist
    /\ errors' = {}
    /\ UNCHANGED <<df, earlier, call>>

\* main: st.warning("No owners selected...") and st.stop(): the run ends ahead
\* of the hierarchy, the charts and the detail view
StopNoOwners ==
    /\ phase = "processed"
    /\ ~(checklist.made /\ checklist.raised)
    /\ NoOwnerSelected(processed_df)
    /\ phase' = "stopped"
    /\ UNCHANGED <<df, now, processed_df, earlier, outputs, errors, call, session_state>>

\* main: the st.info line that joins the selected owners raises, the except of
\* main ends the run with an error message
OwnerFilteringFails ==
    /\ phase = "processed"
    /\ ~(checklist.made /\ checklist.raised)
    /\ OwnerFilterRaises(processed_df)
    /\ phase' = "stopped"
    /\ errors' = errors \cup {ERROR_PROCESSING_FILE}
    /\ UNCHANGED <<df, now, processed_df, earlier, outputs, call, session_state>>

OwnerNext ==
    \/ UploadOwners
    \/ ProcessData
    \/ GenerateChecklist
    \/ CheckOwners
    \/ StopNoOwners
    \/ OwnerFilteringFails
    \/ DisplayHierarchyBreakdown
    \/ DisplayDetailedTables
    \/ GenerateInventoryReport

OwnerSpec == Init /\ [][OwnerNext]_vars

-----------------------------------------------------------------------------
(* A session over a portfolio of several records *)

Portfolios == PlaceTables

\* main: df = pd.read_csv(uploaded_file), the file holding a portfolio
UploadPortfolio ==
    /\ phase = "idle"
    /\ \E table \in Portfolios : df' = table
    /\ phase' = "uploaded"
    /\ UNCHANGED <<now, processed_df, earlier, outputs, errors, call, session_state>>

SessionNext == UploadPortfolio \/ ProcessData \/ DisplayHierarchyBreakdown

SessionSpec == Init /\ [][SessionNext]_vars

-----------------------------------------------------------------------------
(* Properties *)

Processed == phase = "processed"

RowIds == 1..Len(df.rows)

Raw(i) == df.rows[i]
Out(i) == processed_df.rows[i]

\* C1: the derived price_reductions is (9 - d) mod 10 for the last decimal
\* digit d of the integer part of the asking price process_data sees, also for
\* negative prices and prices below 10, and it is 0 for a price that is 0,
\* null or non-numeric.
C1_PriceReductionsDigitRule ==
    (Processed /\ COL_PRICE \in df.cols) =>
        \A i \in RowIds :
            LET raw == Raw(i)[COL_PRICE]
                p == Out(i)[COL_PRICE]
                r == Out(i)["price_reductions"]
                digit == (Abs(p.n) \div p.d) % 10
            IN  /\ r.k = "num" /\ r.d = 1
                /\ (raw.k = "null" \/ raw \in {Str("abc"), Str("$1,200")} \/ IsZero(raw))
                      => r.n = 0
                /\ ~IsZero(p) => r.n = (9 - digit) % 10

\* C1 witness: a negative asking price, -15, got 4 reductions
C1_Witness ==
    /\ Processed
    /\ \E i \in RowIds :
          /\ COL_PRICE \in df.cols
          /\ Raw(i)[COL_PRICE] = Whole(-15)
          /\ Out(i)["price_reductions"] = Whole(4)

\* a raw cell that holds a proper value: present, not null, not empty, no
\* placeholder (in any letter case) and, for the cost basis, a non-zero number
RawFilled(row, key) ==
    /\ key \in DOMAIN row
    /\ ~isna(row[key])
    /\ row[key] # Str("")
    /\ row[key].k = "str" => Title(row[key].s[1]) \notin {"Unknown", "Unknown County"}
    /\ (key = COL_COST => to_numeric(row[key]).k = "num" /\ ~IsZero(to_numeric(row[key])))

\* C2: the derived missing_information of a raw record is the Complete status
\* if and only if every required field key is present in the raw record,
\* non-null, non-empty, no placeholder and, for the cost basis, non-zero.
C2_CompleteIffEveryRawFieldFilled ==
    Processed =>
        \A i \in RowIds :
            (Out(i)["missing_information"] = Str(COMPLETE))
                <=> (\A key \in RequiredKeys : RawFilled(Raw(i), key))

\* the labels a missing_information string lists: its pieces after the
\* prefix, less the separators
LabelsOf(text) ==
    LET NotSep(x) == x # ", "
    IN  SelectSeq(Tail(text.s), NotSep)

\* the position of a label in the required-field mapping (0: not a label)
LabelIndex(label) ==
    IF \E f \in 1..Len(required_fields) : required_fields[f][2] = label
    THEN CHOOSE f \in 1..Len(required_fields) : required_fields[f][2] = label
    ELSE 0

\* the missing-field policy on the row check_missing_information is given
MissingByPolicy(row, key) ==
    \/ key \notin DOMAIN row
    \/ row[key].k = "null"
    \/ row[key].k = "str" /\ row[key].s = <<"">>
    \/ key # COL_COST /\ row[key].k = "str"
          /\ row[key].s \in {<<"Unknown">>, <<"Unknown County">>}
    \/ key = COL_COST /\ row[key].k = "num" /\ row[key].n = 0

\* C3: for a record that is not complete the status lists exactly the labels
\* of the missing required fields, each once, in the order of the mapping;
\* the label of a structurally absent column is listed like that of an empty
\* value.
C3_MissingLabelsExactAndOrdered ==
    Processed =>
        \A i \in RowIds :
            LET text == Out(i)["missing_information"]
                labels == LabelsOf(text)
            IN  text # Str(COMPLETE) =>
                  /\ text.s[1] = MISSING_PREFIX
                  /\ Len(text.s) = 2 * Len(labels)
                  /\ Len(labels) >= 1
                  /\ \A j \in 1..Len(labels) : LabelIndex(labels[j]) # 0
                  /\ \A j, l \in 1..Len(labels) :
                        j < l => LabelIndex(labels[j]) < LabelIndex(labels[l])
                  /\ \A f \in 1..Len(required_fields) :
                        (required_fields[f][2] \in Range(labels))
                            <=> MissingByPolicy(Out(i), required_fields[f][1])
                  /\ \A key \in RequiredKeys \ df.cols :
                        \E f \in 1..Len(required_fields) :
                            /\ required_fields[f][1] = key
                            /\ required_fields[f][2] \in Range(labels)

\* C3 witness: a record with an absent column and a null cell lists both
C3_Witness ==
    /\ Processed
    /\ \E i \in RowIds :
          /\ COL_COUNTY \notin df.cols
          /\ "custom.All_APN" \in df.cols
          /\ Raw(i)["custom.All_APN"] = Null
          /\ LabelsOf(Out(i)["missing_information"]) = <<"APN", "County">>

MetricColumns ==
    {"current_margin", "current_margin_pct", "price_per_acre", "markup_percentage",
     "cost_basis_per_acre", "percent_of_initial_listing"}

\* the cell of a column after coercion; None when the table has no such column
Val(i, col) == Get(Out(i), col)

\* C4: a ratio whose denominator is zero is 0, and no ratio is ever infinite
\* or NaN: zero acres give price_per_acre = cost_basis_per_acre = 0, a zero
\* cost basis markup_percentage = 0, a zero asking price current_margin_pct =
\* 0, a zero original listing price percent_of_initial_listing = 0.
C4_ZeroDenominatorGivesZero ==
    Processed =>
        \A i \in RowIds :
            /\ \A m \in MetricColumns : Out(i)[m].k = "num" /\ Out(i)[m].d > 0
            /\ IsZero(Val(i, COL_ACRES)) =>
                  /\ Out(i)["price_per_acre"] = Whole(0)
                  /\ Out(i)["cost_basis_per_acre"] = Whole(0)
            /\ IsZero(Val(i, COL_COST)) => Out(i)["markup_percentage"] = Whole(0)
            /\ IsZero(Val(i, COL_PRICE)) => Out(i)["current_margin_pct"] = Whole(0)
            /\ IsZero(Val(i, COL_OLP)) => Out(i)["percent_of_initial_listing"] = Whole(0)

\* C4 witness: a record with zero acres and a non-zero asking price
C4_Witness ==
    /\ Processed
    /\ \E i \in RowIds :
          /\ Has(Raw(i), {COL_PRICE, COL_ACRES})
          /\ Raw(i)[COL_ACRES] = Whole(0)
          /\ Raw(i)[COL_PRICE] = Whole(150000)
          /\ Out(i)["price_per_acre"] = Whole(0)

\* the number a/b written out, a/b in lowest terms
Ratio(a, b) == [k |-> "num", s |-> <<>>, n |-> a, d |-> b]

\* x is a non-zero number
NonZero(x) == x.k = "num" /\ x.n # 0

\* C5: with non-zero denominators, current_margin = asking - cost_basis,
\* current_margin_pct = current_margin / asking * 100, markup_percentage =
\* (asking - cost_basis) / cost_basis * 100, price_per_acre = asking / acres,
\* cost_basis_per_acre = cost_basis / acres, percent_of_initial_listing =
\* asking / original * 100; cost 100000, asking 150000, 50 acres, original
\* 180000 give 50000, 100/3, 50, 3000, 2000, 250/3.
C5_RatioFormulas ==
    Processed =>
        \A i \in RowIds :
            LET asking == Val(i, COL_PRICE)
                cost == Val(i, COL_COST)
                acres == Val(i, COL_ACRES)
                original == Val(i, COL_OLP)
                o == Out(i)
            IN  /\ Has(o, {COL_PRICE, COL_COST}) =>
                      o["current_margin"] = RSub(asking, cost)
                /\ (Has(o, {COL_PRICE, COL_COST}) /\ NonZero(asking)) =>
                      o["current_margin_pct"] =
                          RMul(RDiv(o["current_margin"], asking), Whole(100))
                /\ (Has(o, {COL_PRICE, COL_COST}) /\ NonZero(cost)) =>
                      o["markup_percentage"] =
                          RMul(RDiv(RSub(asking, cost), cost), Whole(100))
                /\ (Has(o, {COL_PRICE, COL_ACRES}) /\ NonZero(acres)) =>
                      o["price_per_acre"] = RDiv(asking, acres)
                /\ (Has(o, {COL_COST, COL_ACRES}) /\ NonZero(acres)) =>
                      o["cost_basis_per_acre"] = RDiv(cost, acres)
                /\ (Has(o, {COL_PRICE, COL_OLP}) /\ NonZero(original)) =>
                      o["percent_of_initial_listing"] =
                          RMul(RDiv(asking, original), Whole(100))
                /\ (/\ asking = Whole(150000) /\ cost = Whole(100000)
                    /\ acres = Whole(50) /\ original = Whole(180000)) =>
                      /\ o["current_margin"] = Whole(50000)
                      /\ o["current_margin_pct"] = Ratio(100, 3)
                      /\ o["markup_percentage"] = Whole(50)
                      /\ o["price_per_acre"] = Whole(3000)
                      /\ o["cost_basis_per_acre"] = Whole(2000)
                      /\ o["percent_of_initial_listing"] =
                            Ratio(250, 3)

\* C5 witness: the record of the example has been derived
C5_Witness ==
    /\ Processed
    /\ \E i \in RowIds :
          /\ Has(Raw(i), {COL_PRICE, COL_COST, COL_ACRES, COL_OLP})
          /\ Raw(i)[COL_PRICE] = Whole(150000)
          /\ Raw(i)[COL_COST] = Whole(100000)
          /\ Raw(i)[COL_ACRES] = Whole(50)
          /\ Raw(i)[COL_OLP] = Whole(180000)
          /\ Out(i)["markup_percentage"] = Whole(50)

\* the input columns of each derived metric
MetricInputs ==
    [m \in MetricColumns \cup {"price_reductions"} |->
        CASE m = "price_reductions" -> {COL_PRICE}
          [] m = "current_margin" -> {COL_PRICE, COL_COST}
          [] m = "current_margin_pct" -> {COL_PRICE, COL_COST}
          [] m = "price_per_acre" -> {COL_PRICE, COL_ACRES}
          [] m = "markup_percentage" -> {COL_PRICE, COL_COST}
          [] m = "cost_basis_per_acre" -> {COL_COST, COL_ACRES}
          [] m = "percent_of_initial_listing" -> {COL_PRICE, COL_OLP}]

\* C6: presence is decided per column: a metric with an input column absent
\* from the upload is 0 in every row, while a metric whose input columns are
\* all present is computed, also in a row whose cell is null (from the 0 the
\* cell is coerced to).
C6_AbsentColumnDisablesMetric ==
    Processed =>
        \A i \in RowIds :
            /\ \A m \in DOMAIN MetricInputs :
                  ~(MetricInputs[m] \subseteq df.cols) => Out(i)[m] = Whole(0)
            /\ (Has(Raw(i), {COL_COST, COL_ACRES}) /\ NonZero(Val(i, COL_ACRES))) =>
                  Out(i)["cost_basis_per_acre"] = RDiv(Val(i, COL_COST), Val(i, COL_ACRES))
            /\ (Has(Raw(i), {COL_PRICE, COL_ACRES}) /\ NonZero(Val(i, COL_ACRES))) =>
                  Out(i)["price_per_acre"] = RDiv(Val(i, COL_PRICE), Val(i, COL_ACRES))
            /\ (Has(Raw(i), {COL_PRICE, COL_OLP}) /\ NonZero(Val(i, COL_OLP))) =>
                  Out(i)["percent_of_initial_listing"] =
                      RMul(RDiv(Val(i, COL_PRICE), Val(i, COL_OLP)), Whole(100))
            /\ (Has(Raw(i), {COL_PRICE, COL_COST}) /\ isna(Raw(i)[COL_PRICE])) =>
                  Out(i)["current_margin"] = RSub(Whole(0), Val(i, COL_COST))

\* C6 witness: no asking price column, yet cost_basis_per_acre is computed
C6_Witness ==
    /\ Processed
    /\ \E i \in RowIds :
          /\ COL_PRICE \notin df.cols
          /\ Has(Raw(i), {COL_COST, COL_ACRES})
          /\ Out(i)["price_per_acre"] = Whole(0)
          /\ Out(i)["current_margin"] = Whole(0)
          /\ Out(i)["cost_basis_per_acre"] = Whole(2000)

\* C7: after process_data every cell of the four numeric columns is a number;
\* a raw cell that is null or does not parse as a number has become 0.
C7_NumericColumnsCoerced ==
    Processed =>
        \A i \in RowIds :
            \A c \in Range(numeric_columns) \cap df.cols :
                /\ Out(i)[c].k = "num" /\ Out(i)[c].d > 0
                /\ (Raw(i)[c].k = "null"
                      \/ Raw(i)[c] \in {Str("abc"), Str("$1,200"), Str(""), Str("Unknown"),
                                        Str("Unknown County")})
                      => Out(i)[c] = Whole(0)
                /\ Raw(i)[c].k = "num" => Out(i)[c] = Raw(i)[c]

\* C7 witness: an unparseable cost basis and a null acreage were made 0
C7_Witness ==
    /\ Processed
    /\ \E i \in RowIds :
          /\ Has(Raw(i), {COL_COST, COL_ACRES})
          /\ Raw(i)[COL_COST] = Str("abc")
          /\ Raw(i)[COL_ACRES] = Null
          /\ Out(i)[COL_COST] = Whole(0)
          /\ Out(i)[COL_ACRES] = Whole(0)

\* C8: days_held is null or a non-negative integer, whatever the purchase
\* date, also when it lies after the processing time.
C8_DaysHeldNonNegative ==
    Processed =>
        \A i \in RowIds :
            LET held == Out(i)["days_held"]
            IN  held.k = "null" \/ (held.k = "num" /\ held.d = 1 /\ held.n >= 0)

\* the purchase dates that pd.to_datetime reads as a date
ParsedDates == {Str("2024-01-01"), Str("2024-01-02"), Str("2024-01-03 12:00")}

RECURSIVE FirstEncountered(_, _)
\* the distinct elements of a sequence that are not in `seen`, in the order
\* first encountered
FirstEncountered(items, seen) ==
    IF items = <<>> THEN <<>>
    ELSE IF Head(items) \in seen THEN FirstEncountered(Tail(items), seen)
    ELSE <<Head(items)>> \o FirstEncountered(Tail(items), seen \cup {Head(items)})

\* the status strings of the table the hierarchy is given, row by row (nulls
\* left out)
StatusColumn ==
    LET rows == filtered_df(processed_df).rows
        cells == [i \in 1..Len(rows) |-> rows[i][COL_STATUS]]
        IsText(c) == c.k = "str"
        texts == SelectSeq(cells, IsText)
    IN  [i \in 1..Len(texts) |-> texts[i].s[1]]

\* C10: the hierarchy enumerates the status groups in the order Purchased,
\* Listed, Under Contract, Off Market, followed by every other status present
\* in the table in the order first encountered.
C10_StatusGroupsKnownThenOthers ==
    (Processed /\ hierarchy.shown /\ COL_STATUS \in processed_df.cols) =>
        LET InTable(x) == x \in Range(StatusColumn)
        IN  hierarchy.statuses =
                SelectSeq(status_order, InTable)
                    \o FirstEncountered(StatusColumn, Range(status_order))

-----------------------------------------------------------------------------
(* The county of a record in the hierarchy *)

\* the table the views are given
Shown == filtered_df(processed_df)

UNKNOWN_COUNTY == Str("Unknown County")

\* the lines of the hierarchy for one county of one state of one status
CountyLines(status, state, county) ==
    {line \in UNION {UNION {Range(st.counties) :
                               st \in {x \in Range(b.states) : x.State = state}} :
                        b \in {x \in Range(hierarchy.breakdown) : x.Status = status}} :
        line.County = county}

\* the rows of the shown table with that status, state and county
RowsAt(status, state, county) ==
    {i \in 1..Len(Shown.rows) :
        /\ Shown.rows[i][COL_STATUS] = Str(status)
        /\ Shown.rows[i][COL_STATE] = state
        /\ Shown.rows[i][COL_COUNTY] = county}

\* C11: a record whose county is missing gets the county 'Unknown County' from
\* process_data (any other county is title-cased), the hierarchy has exactly
\* one line labelled 'Unknown County' under the record's status and state, that
\* line counts the records of that status and state whose county is 'Unknown
\* County', and it is not the line of the county literally named 'Unknown'.
C11_MissingCountyGroupedApart ==
    (hierarchy.shown /\ {COL_COUNTY, COL_STATUS, COL_STATE} \subseteq df.cols) =>
        /\ \A i \in RowIds :
              Out(i)[COL_COUNTY] =
                 IF isna(Raw(i)[COL_COUNTY]) THEN UNKNOWN_COUNTY
                 ELSE Str(Title(Raw(i)[COL_COUNTY].s[1]))
        /\ \A i \in 1..Len(Shown.rows) :
              LET row == Shown.rows[i]
              IN  row[COL_COUNTY] = UNKNOWN_COUNTY =>
                    \E status \in {"Purchased", "Listed", "Under Contract", "Off Market", "Zzz-Unknown"} :
                       /\ row[COL_STATUS] = Str(status)
                       /\ Cardinality(CountyLines(status, row[COL_STATE], UNKNOWN_COUNTY)) = 1
                       /\ \A line \in CountyLines(status, row[COL_STATE], UNKNOWN_COUNTY) :
                             /\ line.Properties =
                                   Cardinality(RowsAt(status, row[COL_STATE], UNKNOWN_COUNTY))
                             /\ line \notin CountyLines(status, row[COL_STATE], Str("Unknown"))

-----------------------------------------------------------------------------
(* Reruns and the independence of the records *)

\* the table without its days_held column
Undated(table) ==
    [cols |-> table.cols \ {"days_held"},
     rows |-> [i \in 1..Len(table.rows) |->
                 [c \in DOMAIN table.rows[i] \ {"days_held"} |-> table.rows[i][c]]]]

Alone(i) == [cols |-> df.cols, rows |-> <<Raw(i)>>]

-----------------------------------------------------------------------------
(* The detail table *)

\* the priority of a status in the default order, any other status last
Priority(v) ==
    CASE v = Str("Purchased") -> 1
      [] v = Str("Listed") -> 2
      [] v = Str("Under Contract") -> 3
      [] v = Str("Off Market") -> 4
      [] OTHER -> 5

\* a value passes a select box set to 'All', or to that very value
Passes(v, choice) == choice = ALL \/ (NotNa(v) /\ v = choice)

Selected(row) ==
    /\ Passes(row[COL_STATUS], detail.status_filter)
    /\ Passes(row[COL_STATE], detail.state_filter)
    /\ Passes(row[COL_COUNTY], detail.county_filter)

Times(rows, row) == Cardinality({i \in 1..Len(rows) : rows[i] = row})

\* a comes strictly after b in (status priority, state, county); a missing
\* state or county is after every name
After(a, b) ==
    \/ Priority(a[COL_STATUS]) > Priority(b[COL_STATUS])
    \/ /\ Priority(a[COL_STATUS]) = Priority(b[COL_STATUS])
       /\ \/ CellBefore(b[COL_STATE], a[COL_STATE])
          \/ /\ ~CellBefore(a[COL_STATE], b[COL_STATE])
             /\ CellBefore(b[COL_COUNTY], a[COL_COUNTY])

\* C18: the detail table holds exactly the rows of its input that pass the
\* three select boxes ('All' passes everything, any other choice passes the
\* rows holding exactly that value), each as often as the input holds it, and
\* no row of it comes before a row that precedes it in status priority
\* (Purchased, Listed, Under Contract, Off Market, others last), then state,
\* then county.
C18_DetailFilteredAndSorted ==
    (detail.shown /\ ~detail.raised) =>
        /\ \A row \in Range(Shown.rows) \cup Range(detail.table.rows) :
              Times(detail.table.rows, row) =
                 IF Selected(row) THEN Times(Shown.rows, row) ELSE 0
        /\ \A i \in 1..Len(detail.table.rows), j \in 1..Len(detail.table.rows) :
              i < j => ~After(detail.table.rows[i], detail.table.rows[j])

\* two filters set, and rows of three statuses listed out of their input order
C18_Witness ==
    /\ detail.shown /\ ~detail.raised
    /\ detail.status_filter = ALL
    /\ detail.state_filter = Str("TX")
    /\ Len(Shown.rows) = 3
    /\ Len(detail.table.rows) = 2
    /\ detail.table.rows[1] = Shown.rows[3]
    /\ Priority(detail.table.rows[1][COL_STATUS]) < Priority(detail.table.rows[2][COL_STATUS])

-----------------------------------------------------------------------------
(* The inventory report *)

Reported == inventory.made /\ ~inventory.raised

Story == inventory.story

\* the positions of the flowables of a kind and name
At(kind, name) == {i \in 1..Len(Story) : Story[i].kind = kind /\ Story[i].name = name}

\* the records the report was given that have a status and a listing type
Matching(status, listing_type) ==
    {i \in 1..Len(inventory.df.rows) :
        /\ inventory.df.rows[i][COL_STATUS] = Str(status)
        /\ inventory.df.rows[i][COL_LISTING_TYPE] = Str(listing_type)}

\* the title of the section of a status and a listing type
SectionTitle(status, listing_type) ==
    CASE status = "Purchased" /\ listing_type = "Primary" -> "Purchased (Primary)"
      [] status = "Listed" /\ listing_type = "Primary" -> "Listed (Primary)"
      [] status = "Under Contract" /\ listing_type = "Primary" -> "Under Contract (Primary)"
      [] status = "Off Market" /\ listing_type = "Primary" -> "Off Market (Primary)"
      [] status = "Purchased" /\ listing_type = "Secondary" -> "Purchased (Secondary)"
      [] status = "Listed" /\ listing_type = "Secondary" -> "Listed (Secondary)"
      [] status = "Under Contract" /\ listing_type = "Secondary" -> "Under Contract (Secondary)"
      [] status = "Off Market" /\ listing_type = "Secondary" -> "Off Market (Secondary)"

KnownStatuses == {"Purchased", "Listed", "Under Contract", "Off Market"}
KnownTypes == {"Primary", "Secondary"}

SectionTitles == {SectionTitle(st, lt) : st \in KnownStatuses, lt \in KnownTypes}

\* C15: a status x listing-type section without a matching record has no
\* flowable in the story (no header, no table, no subtotal block), and the
\* header of every section in the story is followed by that section's table,
\* which has at least one property row.
C15_EmptySectionsOmitted ==
    Reported =>
        /\ \A st \in KnownStatuses, lt \in KnownTypes :
              Matching(st, lt) = {} =>
                 \A i \in 1..Len(Story) : Story[i].name # SectionTitle(st, lt)
        /\ \A i \in 1..Len(Story) :
              (Story[i].kind = "Heading" /\ Story[i].name \in SectionTitles) =>
                 /\ i < Len(Story)
                 /\ Story[i + 1].kind = "Table"
                 /\ Story[i + 1].name = Story[i].name
                 /\ Len(Story[i + 1].rows) >= 1

\* a report with a section rendered and a section left out
C15_Witness ==
    /\ Reported
    /\ Len(inventory.df.rows) = 2
    /\ At("Table", "Listed (Secondary)") # {}
    /\ At("Heading", "Purchased (Primary)") = {}
    /\ Matching("Purchased", "Primary") = {}

PrimaryTitles == {SectionTitle(st, "Primary") : st \in KnownStatuses}
SecondaryTitles == {SectionTitle(st, "Secondary") : st \in KnownStatuses}

\* C16: the story has one Primary Portfolio Summary heading; every flowable of
\* a Primary section is before it, the Primary sections in the order
\* Purchased, Listed, Under Contract, Off Market; every flowable of a
\* Secondary section is after it and before the one Definitions heading; the
\* glossary follows that heading and the disclaimer is the last flowable.
C16_ReportLayoutOrder ==
    Reported =>
        /\ Cardinality(At("Heading", PRIMARY_PORTFOLIO_SUMMARY)) = 1
        /\ Cardinality(At("Heading", DEFINITIONS)) = 1
        /\ \A summary \in At("Heading", PRIMARY_PORTFOLIO_SUMMARY),
              glossary \in At("Heading", DEFINITIONS) :
              /\ summary < glossary
              /\ \A i \in 1..Len(Story) :
                    /\ Story[i].name \in PrimaryTitles => i < summary
                    /\ Story[i].name \in SecondaryTitles => summary < i /\ i < glossary
                    /\ Story[i].kind = "Glossary" => glossary < i
              /\ \A a \in 1..Len(status_order), b \in 1..Len(status_order) :
                    a < b =>
                       \A i \in At("Heading", SectionTitle(status_order[a], "Primary")),
                          j \in At("Heading", SectionTitle(status_order[b], "Primary")) : i < j
        /\ Story[Len(Story)] = Flowable("Disclaimer", DISCLAIMER, <<>>)
        /\ At("Disclaimer", DISCLAIMER) = {Len(Story)}

\* a report with two Primary sections and a Secondary one
C16_Witness ==
    /\ Reported
    /\ At("Heading", "Purchased (Primary)") # {}
    /\ At("Heading", "Off Market (Primary)") # {}
    /\ At("Heading", "Listed (Secondary)") # {}

\* the numeric and currency cells of a property row and the value each renders
NumericCells ==
    <<<<"acres", COL_ACRES>>, <<"cost_basis", COL_COST>>, <<"asking_price", COL_PRICE>>,
      <<"profit_margin", "current_margin">>, <<"margin_pct", "current_margin_pct">>,
      <<"markup", "markup_percentage">>, <<"price_per_acre", "price_per_acre">>,
      <<"cost_per_acre", "cost_basis_per_acre">>, <<"original_price", COL_OLP>>,
      <<"percent_olp", "percent_of_initial_listing">>, <<"days_held", "days_held">> >>

\* absent, zero or negative
NothingToShow(row, col) ==
    \/ col \notin DOMAIN row
    \/ isna(row[col])
    \/ row[col].k \in {"num", "inf"} /\ row[col].n <= 0

\* the property rows of the story
PropertyRows == UNION {Range(Story[i].rows) : i \in {j \in 1..Len(Story) : Story[j].kind = "Table"}}

\* C17: in a report of one record, every numeric or currency cell of the
\* property row whose value in the record is absent, zero or negative reads
\* 'N/A'.
C17_NonPositiveCellsReadNA ==
    (Reported /\ Len(inventory.df.rows) = 1) =>
        \A line \in PropertyRows :
           \A c \in 1..Len(NumericCells) :
              NothingToShow(inventory.df.rows[1], NumericCells[c][2]) =>
                 line[NumericCells[c][1]] = NA

\* the issues main reports for the derived table
Issues == validation_issues(processed_df)

\* the record is a property row of the table of the section titled `title`
AppearsIn(row, title) ==
    \E i \in At("Table", title) : \E k \in 1..Len(Story[i].rows) :
        Story[i].rows[k] = report_row(row)

\* C20: when validation reports no issue, every record of the table the
\* report is generated from is a property row of the section of its status
\* and listing type; and a record whose status or listing type is not a valid
\* one is a property row of no section.
C20_ValidatedRecordsAppear ==
    Reported =>
        \A i \in 1..Len(inventory.df.rows) :
           LET row == inventory.df.rows[i]
           IN  /\ Issues = {} =>
                     \E st \in KnownStatuses, lt \in KnownTypes :
                        /\ row[COL_STATUS] = Str(st)
                        /\ row[COL_LISTING_TYPE] = Str(lt)
                        /\ AppearsIn(row, SectionTitle(st, lt))
               /\ (row[COL_STATUS] \notin valid_statuses
                     \/ row[COL_LISTING_TYPE] \notin valid_types) =>
                     \A title \in SectionTitles : ~AppearsIn(row, title)

-----------------------------------------------------------------------------
(* The tables the stages are given *)

-----------------------------------------------------------------------------
(* A derivation that fails as a whole *)

\* the table main holds is the one the except branch of process_data returns
Failed == Processed /\ processed_df = process_data_except(df)

\* the cells of a report row that show a derived column, as they read for the
\* defaults of the except branch: $0 and 0% for a metric that is 0, N/A for one
\* that must be positive and for the days held
DefaultCells ==
    [profit_margin |-> Text(<<"$", "0">>), margin_pct |-> Text(<<"0", "%">>),
     markup |-> Text(<<"0", "%">>), price_per_acre |-> NA, cost_per_acre |-> NA,
     percent_olp |-> Text(<<"0", "%">>), days_held |-> NA]

-----------------------------------------------------------------------------
(* Wrapped text *)

\* the text the call was given, as a string
Given == Flat(wrap_text.s)

\* the text the call returned, as a string
Returned == Flat(wrapped.value.s)

StartsWithBreak(s) == Len(s) >= Len(BR) /\ SubSeq(s, 1, Len(BR)) = BR

\* s.split('<br/>'): the stretches of s between the breaks
RECURSIVE Stretches(_)
Stretches(s) ==
    IF s = "" THEN <<"">>
    ELSE IF StartsWithBreak(s) THEN <<"">> \o Stretches(From(s, Len(BR) + 1))
    ELSE LET rest == Stretches(From(s, 2))
         IN  <<SubSeq(s, 1, 1) \o Head(rest)>> \o Tail(rest)

\* the words found by splitting s on the breaks and then on blanks
RECURSIVE WordsOf(_)
WordsOf(stretches) ==
    IF stretches = <<>> THEN <<>> ELSE split(Head(stretches)) \o WordsOf(Tail(stretches))

\* a text in which the markup of a break occurs
RECURSIVE HasBreak(_)
HasBreak(s) == s # "" /\ (StartsWithBreak(s) \/ HasBreak(From(s, 2)))

\* what the wrapping of a text longer than the limit must keep
Wrapping ==
    /\ WordsOf(Stretches(Returned)) = split(Given)
    /\ \A i \in 1..Len(Stretches(Returned)) :
          LET line == Stretches(Returned)[i]
          IN  Len(line) <= wrap_max_length \/ Len(split(line)) = 1

\* what a call must return for a text that needs no wrapping
Unwrapped ==
    /\ (isna(wrap_text) \/ wrap_text = Str("")) => wrapped.value = NA
    /\ (~isna(wrap_text) /\ wrap_text # Str("") /\ Len(Given) <= wrap_max_length) =>
          wrapped.value = wrap_text

TooLong == ~isna(wrap_text) /\ Len(Given) > wrap_max_length

\* C21 as stated: for every text longer than max_length, splitting the result
\* on '<br/>' and blanks gives the words of the text, and every line is within
\* max_length or is one word; shorter texts come back unchanged, a null or
\* empty one as 'N/A'.
C21_WrapKeepsEveryWord ==
    wrapped.called => (Unwrapped /\ (TooLong => Wrapping))

\* C21 amended: the same for the texts in which '<br/>' does not occur.
C21_WrapKeepsEveryWordWithoutMarkup ==
    wrapped.called => (Unwrapped /\ ((TooLong /\ ~HasBreak(Given)) => Wrapping))

\* a text without markup was wrapped onto several lines, one of them holding
\* two words
C21_Witness ==
    /\ wrapped.called
    /\ TooLong /\ ~HasBreak(Given)
    /\ Len(Stretches(Returned)) > 1
    /\ \E i \in 1..Len(Stretches(Returned)) : Len(split(Stretches(Returned)[i])) = 2
-----------------------------------------------------------------------------
(* The checkboxes of the checklist *)

\* the labels check_missing_information produced for a derived record
LabelsProduced(row) ==
    LET Missing(p) == IsMissingField(row, p[1])
        sel == SelectSeq(required_fields, Missing)
    IN  IF row["missing_information"] = Str(ERROR_PROCESSING) THEN <<>>
        ELSE [i \in 1..Len(sel) |-> sel[i][2]]

\* the non-empty cells of a table of checkboxes, row after row
RECURSIVE CellsOf(_)
CellsOf(rows) ==
    IF rows = <<>> THEN <<>>
    ELSE LET Filled(cell) == cell # ""
         IN  SelectSeq(Head(rows), Filled) \o CellsOf(Tail(rows))

\* a label as the claim has it shown
Shortened(label) ==
    IF Len(label) > 18 THEN SubSeq(label, 1, 18) \o "..." ELSE label

\* C22: for every property on the checklist the table of checkboxes has
\* ceil(n/3) rows of 3 cells for the n labels check_missing_information
\* produced, and its non-empty cells are the boxes of those labels in order,
\* each label cut to 18 characters and '...' when it is longer.
C22_CheckboxGridKeepsLabels ==
    (checklist.made /\ ~checklist.raised) =>
        \A i \in 1..Len(checklist.properties) :
           LET labels == LabelsProduced(checklist.properties[i])
               rows == checklist.tables[i]
           IN  /\ 3 * Len(rows) >= Len(labels) /\ 3 * Len(rows) < Len(labels) + 3
               /\ \A r \in 1..Len(rows) : Len(rows[r]) = 3
               /\ CellsOf(rows) = [j \in 1..Len(labels) |-> CHECKBOX \o Shortened(labels[j])]

\* a property with four missing labels, one of them longer than 18 characters,
\* is on the checklist with two rows of checkboxes
C22_Witness ==
    /\ checklist.made /\ ~checklist.raised
    /\ \E i \in 1..Len(checklist.properties) :
          /\ Len(LabelsProduced(checklist.properties[i])) = 4
          /\ \E j \in 1..4 : Len(LabelsProduced(checklist.properties[i])[j]) > 18
          /\ Len(checklist.tables[i]) = 2
-----------------------------------------------------------------------------
(* Records without a usable status *)

\* a derived record that is incomplete and whose status is missing or unknown
Statusless(row) ==
    /\ row["missing_information"] # Str(COMPLETE)
    /\ row[COL_STATUS] \notin valid_statuses

\* the views over such records: neither raises
StatuslessViewed ==
    /\ hierarchy.shown => ~hierarchy.raised
    /\ detail.shown => ~detail.raised

\* C23: over a derived table that holds an incomplete record whose status is
\* missing or unrecognized, the checklist is made without raising and lists
\* that record, and the hierarchy and the detail table do not raise.
C23_StatuslessRecordNeverFails ==
    (Processed /\ \E i \in 1..Len(processed_df.rows) : Statusless(Out(i))) =>
        /\ StatuslessViewed
        /\ checklist.made =>
              /\ ~checklist.raised
              /\ \A i \in 1..Len(processed_df.rows) :
                    Statusless(Out(i)) => Out(i) \in Range(checklist.properties)
-----------------------------------------------------------------------------
(* The report of a table that lacks columns *)

\* C24: for a table that lacks any of the status, listing type, asking price,
\* cost basis, state, county or display name columns the inventory report is
\* made and nothing is raised.
C24_AbsentColumnsNeverFailExport ==
    (inventory.made /\ ~(ReportColumns \subseteq inventory.df.cols)) =>
        ~inventory.raised
-----------------------------------------------------------------------------
(* The shape of the derived table *)

\* the columns process_data copies as they are
Untouched == df.cols \ (Range(numeric_columns) \cup {COL_COUNTY} \cup DerivedColumns)

\* C25: the table process_data returns, on the normal path and on the except
\* path, has one record for each record of the input, in the same order, and
\* every record has the nine derived columns.
C25_SameRowsAndNineDerivedColumns ==
    Processed =>
        /\ Len(processed_df.rows) = Len(df.rows)
        /\ processed_df.cols = df.cols \cup DerivedColumns
        /\ Cardinality(DerivedColumns) = 9
        /\ \A i \in RowIds :
              /\ DOMAIN Out(i) = processed_df.cols
              /\ \A c \in Untouched : Out(i)[c] = Raw(i)[c]
              /\ Out(i) \in {process_row(Raw(i), now),
                             process_data_except(df).rows[i]}

\* three records, the first and the last different, have been derived on the
\* normal path
C25_Witness ==
    /\ Processed
    /\ Len(df.rows) = 3
    /\ Raw(1) # Raw(3)
    /\ ~Failed
-----------------------------------------------------------------------------
(* Coercion before the completeness check *)

\* a raw cell that is null or does not parse as a number
Unusable(v) == isna(to_numeric(v))

\* the labels reported missing for the i-th record
Reported_missing(i) ==
    IF Out(i)["missing_information"] = Str(COMPLETE) THEN {}
    ELSE Range(LabelsOf(Out(i)["missing_information"]))

RECURSIVE Added(_, _)
Added(indices, field) ==
    IF indices = {} THEN Whole(0)
    ELSE LET i == CHOOSE j \in indices : TRUE
             x == Story[i].rows[1][field]
             rest == Added(indices \ {i}, field)
         IN  Num(x.n * rest.d + rest.n * x.d, x.d * rest.d)

RECURSIVE Counted(_)
Counted(indices) ==
    IF indices = {} THEN 0
    ELSE LET i == CHOOSE j \in indices : TRUE
         IN  Story[i].rows[1].properties + Counted(indices \ {i})

\* the subtotal blocks of the Primary sections, of every section, and the
\* portfolio summary
PrimarySubtotals ==
    {i \in 1..Len(Story) : Story[i].kind = "SectionSummary" /\ Story[i].name \in PrimaryTitles}
Subtotals == {i \in 1..Len(Story) : Story[i].kind = "SectionSummary"}
Summaries == {i \in 1..Len(Story) : Story[i].kind = "PortfolioSummary"}

\* the records of the reported table that belong to one of the six sections
InSomeSection ==
    {i \in 1..Len(inventory.df.rows) :
        \E section \in Range(primary_sections \o secondary_sections) :
           /\ inventory.df.rows[i][COL_STATUS] = Str(section.status)
           /\ inventory.df.rows[i][COL_LISTING_TYPE] = Str(section.listing_type)}

\* C27: in a report, the property count, the total asking price and the total
\* cost basis of the Primary Portfolio Summary equal the sums of the subtotals
\* of the rendered Primary sections, and the property counts of all rendered
\* sections add up to the number of records that belong to a section: no
\* record is counted in two sections.
C27_SummaryEqualsPrimarySubtotals ==
    Reported =>
        /\ Cardinality(Summaries) = 1
        /\ \A s \in Summaries :
              /\ Story[s].rows[1].properties = Counted(PrimarySubtotals)
              /\ Story[s].rows[1].total_asking = Added(PrimarySubtotals, "total_asking")
              /\ Story[s].rows[1].total_cost = Added(PrimarySubtotals, "total_cost")
        /\ Counted(Subtotals) = Cardinality(InSomeSection)

\* a report with two Primary sections of different amounts, one of them
\* without a cost basis, and a Secondary section
C27_Witness ==
    /\ Reported
    /\ Cardinality(PrimarySubtotals) = 2
    /\ Subtotals # PrimarySubtotals
    /\ \E s \in Summaries :
          /\ Story[s].rows[1].properties = 2
          /\ Story[s].rows[1].total_asking = Whole(270000)
          /\ Story[s].rows[1].total_cost = Whole(100000)

\* the sum of the property counts of the level 1 table
RECURSIVE Level1Count(_)
Level1Count(summary) ==
    IF summary = <<>> THEN 0 ELSE Head(summary).Properties + Level1Count(Tail(summary))

\* the records of the table the hierarchy was given whose status is none of the
\* four of status_order: another string, NaN, or no status column at all
Ungrouped ==
    {i \in 1..Len(hierarchy.df.rows) :
        Get(hierarchy.df.rows[i], COL_STATUS) \notin {Str(st) : st \in KnownStatuses}}

\* C28: in a rendered hierarchy the property counts of level 1 sum to the
\* Total Properties metric less the records whose status is none of the four
\* known ones, so never to more than the total and to the total exactly when
\* there is no such record; every group of level 1 and every expander is of
\* one of the four statuses.
C28_StatusCountsWithinTotal ==
    hierarchy.shown =>
        /\ hierarchy.total = Len(hierarchy.df.rows)
        /\ Level1Count(hierarchy.summary) = hierarchy.total - Cardinality(Ungrouped)
        /\ Level1Count(hierarchy.summary) <= hierarchy.total
        /\ (Level1Count(hierarchy.summary) = hierarchy.total) <=> (Ungrouped = {})
        /\ \A i \in 1..Len(hierarchy.summary) : hierarchy.summary[i].Status \in KnownStatuses
        /\ \A i \in 1..Len(hierarchy.breakdown) :
              /\ hierarchy.breakdown[i].Status \in KnownStatuses
              /\ hierarchy.breakdown[i].Properties
                    = Cardinality({r \in 1..Len(hierarchy.df.rows) :
                         Get(hierarchy.df.rows[r], COL_STATUS)
                            = Str(hierarchy.breakdown[i].Status)})

\* a hierarchy of three records: one of a known status, one of another status
\* and one without a status
C28_Witness ==
    /\ hierarchy.shown
    /\ hierarchy.total = 3
    /\ Level1Count(hierarchy.summary) = 1
    /\ \E i, j \in Ungrouped :
          /\ hierarchy.df.rows[i][COL_STATUS] = Null
          /\ hierarchy.df.rows[j][COL_STATUS] = Str("Zzz-Unknown")

\* the owners on file, the ones whose checkbox is ticked, and the records of
\* the processed table that belong to a ticked owner
OwnersOnFile == {processed_df.rows[i][COL_OWNER] : i \in 1..Len(processed_df.rows)} \ {Null}
Ticked == {owner \in OwnersOnFile : owner \notin DOMAIN session_state \/ session_state[owner]}
OfTicked == SelectSeq(processed_df.rows, LAMBDA row : row[COL_OWNER] \in Ticked)

\* C29: when the owner column holds an owner, the table given to the hierarchy
\* and to the detail view holds exactly the records of the ticked owners, in
\* their order, so no record without an owner; when no owner is ticked the
\* run stops and neither the hierarchy nor the detail view nor the inventory
\* report is rendered.
C29_ViewsGetRecordsOfSelectedOwners ==
    (phase \in {"processed", "stopped"} /\ COL_OWNER \in processed_df.cols /\ OwnersOnFile # {}) =>
        /\ hierarchy.shown =>
              /\ hierarchy.df.rows = OfTicked
              /\ \A i \in 1..Len(hierarchy.df.rows) : hierarchy.df.rows[i][COL_OWNER] # Null
        /\ detail.shown =>
              /\ detail.df.rows = OfTicked
              /\ \A i \in 1..Len(detail.df.rows) : detail.df.rows[i][COL_OWNER] # Null
        /\ Ticked = {} => ~hierarchy.shown /\ ~detail.shown /\ ~inventory.made

\* every owner on file is ticked and the views have left out a record without
\* an owner
C29_Witness ==
    /\ phase = "processed"
    /\ DOMAIN session_state = OwnersOnFile
    /\ Ticked = OwnersOnFile
    /\ Cardinality(OwnersOnFile) = 2
    /\ \E i \in 1..Len(processed_df.rows) : processed_df.rows[i][COL_OWNER] = Null
    /\ hierarchy.shown /\ detail.shown /\ ~detail.raised
    /\ Len(hierarchy.df.rows) = 2
    /\ Len(detail.df.rows) = 2

\* the run has stopped with every owner unticked
C29_Stopped ==
    /\ phase = "stopped"
    /\ OwnersOnFile # {}
    /\ Ticked = {}
    /\ errors = {}

\* how often a record occurs in a sequence of records
Occurs(rows, row) == Cardinality({i \in 1..Len(rows) : rows[i] = row})

\* the incomplete records of the processed table
IncompleteOnFile ==
    SelectSeq(processed_df.rows, LAMBDA row : row["missing_information"] # Str(COMPLETE))

\* a record passes the three filters of the detail view
PassesFilters(row) ==
    /\ detail.status_filter = ALL \/ row[COL_STATUS] = detail.status_filter
    /\ detail.state_filter = ALL \/ row[COL_STATE] = detail.state_filter
    /\ detail.county_filter = ALL \/ row[COL_COUNTY] = detail.county_filter

\* the table the views were given: the records of the ticked owners, or every
\* record when no owner is on file
Viewed == IF OwnersOnFile = {} THEN processed_df.rows ELSE OfTicked

\* C30: the checklist is generated from the whole processed table whatever
\* owners are ticked and whatever the detail filters are, and one that is
\* produced lists exactly the incomplete records of that table, each once;
\* the inventory report is generated from the table of the detail view, which
\* holds exactly the records of the ticked owners that pass the three filters.
C30_ExportsFromDifferentTables ==
    /\ checklist.made => checklist.df = processed_df
    /\ (checklist.made /\ ~checklist.raised) =>
          /\ Len(checklist.properties) = Len(IncompleteOnFile)
          /\ Len(checklist.tables) = Len(IncompleteOnFile)
          /\ \A row \in Range(IncompleteOnFile) \cup Range(checklist.properties) :
                Occurs(checklist.properties, row) = Occurs(IncompleteOnFile, row)
    /\ inventory.made =>
          /\ inventory.df = detail.table
          /\ Len(inventory.df.rows) = Len(SelectSeq(Viewed, PassesFilters))
          /\ \A row \in Range(Viewed) \cup Range(inventory.df.rows) :
                Occurs(inventory.df.rows, row) = Occurs(SelectSeq(Viewed, PassesFilters), row)

\* with one of two owners unticked and a status chosen in the detail view, the
\* checklist lists the incomplete record of the unticked owner and the one
\* without an owner, and the report has the one record that is left
C30_Witness ==
    /\ phase = "processed"
    /\ Str("Owner B") \in OwnersOnFile \ Ticked
    /\ checklist.made /\ ~checklist.raised
    /\ \E i, j \in 1..Len(checklist.properties) :
          /\ checklist.properties[i][COL_OWNER] = Str("Owner B")
          /\ checklist.properties[j][COL_OWNER] = Null
    /\ inventory.made /\ ~inventory.raised
    /\ detail.status_filter = Str("Listed")
    /\ Len(inventory.df.rows) = 1
    /\ Len(processed_df.rows) = 3
====
